---- MODULE Spec2Model ----
(***************************************************************************)
(* s3t: the resource creator (internal/s3tables/creator.go), the paginated *)
(* lister (internal/s3tables/lister.go) and the navigation controller      *)
(* (internal/s3tables/navigator.go), each over the S3TablesAPI remote.     *)
(*                                                                         *)
(* Strings that the code inspects are sequences of characters (so that a   *)
(* name prefix is a sequence prefix and "" is << >>).  A value that can be *)
(* nil (a *string, a returned *CreateResult, an error, a slice) is << >>   *)
(* when nil and <<v>> otherwise.                                           *)
(***************************************************************************)
EXTENDS Integers, Sequences, FiniteSets, TLC

VARIABLES
    \* ---- the remote service behind S3TablesAPI (creator side)
    rBuckets,      \* sequence of [Name, Arn]: the table buckets, in listing order
    rNamespaces,   \* set of <<bucket arn, namespace>>
    rTables,       \* set of <<bucket arn, namespace, table>>
    rPageSize,     \* page size of the remote's listings
    rFailures,     \* the failures a call can return for an outside reason
    faults,        \* how many more remote calls may fail for an outside reason
    \* ---- S3TablesCreator.Create, one entry per invocation
    args,          \* [tableBucket, namespace, table] of the invocations
    pc,            \* position of each invocation
    result,        \* the *CreateResult each invocation is filling
    bucketARN,     \* Create's local tableBucketARN
    ret,           \* [result, err] returned by Create (<< >> is nil)
    calls,         \* the remote calls each invocation made, in order
    seen,          \* per level: what the existence check reported
    was,           \* per level: whether the resource existed when checked
    made,          \* the levels whose create call succeeded remotely
    pre,           \* per level: whether the resource existed when Create began
    \* ---- S3TablesLister.ListTableBucketsAll / ListNamespacesAll / ListTablesAll
    lsKind,        \* which of the three listings is aggregated
    lsAll,         \* the listing the remote holds for the request, in its order
    lsPrefix,      \* the prefix argument
    lsArn,         \* the tableBucketARN argument ("" for the table buckets)
    lsNs,          \* the namespace argument ("" but for the tables)
    lsChanged,     \* how often the remote's listing changed under the aggregation
    lsPc,          \* "idle", "loop" (in the for loop) or "done"
    lsToken,       \* continuationToken
    lsAcc,         \* the slice being appended to (nil until the first append)
    lsPages,       \* the pages the remote returned so far, in order
    lsReqs,        \* the listing calls made so far: [input, err, token]
    lsLast,        \* SpecDrain: the latest answer of the remote, [items, token, err]
    lsRet,         \* [items, err] returned
    \* ---- NavigationController, one browse session
    state,         \* c.state, the NavigationState
    nvPc,          \* "new", "lookup" (runList in GetTableBucketARN), "navigating"
                   \* (at the top of Navigate's loop), "listing" (navigate* in
                   \* ListXAll), "select" (the listing is stored, the selector is
                   \* to be called) or "done"
    nvErr,         \* the error Navigate returned (<< >> is nil)
    nvActs,        \* what each navigate* call returned: [level, action, selected],
                   \* with the items it had to present and whether it fetched them
    nvFetches,     \* the aggregations made: [kind, arn, ns, calls, ok, err], with
                   \* the names the remote listed to those that went through
    nvArgs,        \* runList: the command line's arguments not yet put to use
    \* ---- the create command's output (cmd: printResult)
    prResult,      \* the *CreateResult handed to printResult
    prPc,          \* "idle", "new" (about to print) or "printed"
    prOut,         \* what was printed: the two counts and the summary lines
    \* ---- the two lookups of a table bucket by name
    lkName,        \* the name looked up
    lkCheck,       \* what checkTableBucketExists returned: [exists, arn, err]
    lkGet,         \* what GetTableBucketARN returned: [arn, err]
    lkChanged      \* how often the buckets changed under GetTableBucketARN

creatorVars == <<args, pc, result, bucketARN, ret, calls, seen, was, made, pre>>
remoteVars == <<rBuckets, rNamespaces, rTables, rPageSize, rFailures>>
listerVars ==
    <<lsKind, lsAll, lsPrefix, lsArn, lsNs, lsChanged, lsPc, lsToken, lsAcc, lsPages,
      lsReqs, lsLast, lsRet>>
navVars == <<state, nvPc, nvErr, nvActs, nvFetches, nvArgs>>
cmdVars == <<prResult, prPc, prOut, lkName, lkCheck, lkGet, lkChanged>>
vars == <<remoteVars, faults, creatorVars, listerVars, navVars, cmdVars>>

\* ---------------------------------------------------------------- bounds
MaxCalls == 2
NumClients == 2
MaxPageSize == 2
MaxInitBuckets == 1
MaxFaults == 1
MaxListItems == 3
MaxItems == 2
MaxPrompts == 5
MaxErrCalls == 1
MaxDrainItems == 1
MaxLookupBuckets == 2
MaxRemoteChanges == 1

\* ---------------------------------------------------------------- values
EmptyString == << >>

BucketNames == {<<"a">>, <<"a", "b">>, <<"b">>}
NamespaceName == <<"n">>
TableName == <<"t">>

Levels == {"bucket", "namespace", "table"}

HasPrefix(s, p) == Len(p) <= Len(s) /\ SubSeq(s, 1, Len(p)) = p

None == << >>
Some(x) == <<x>>

\* aws.ToString: "" for a nil *string
awsToString(p) == IF p = None THEN EmptyString ELSE p[1]

ListingKinds == {"TableBuckets", "Namespaces", "Tables"}

\* The name of a listed item, as the conversion of the lister takes it.
NameOf(kind, item) ==
    IF kind = "Namespaces"
    THEN IF Len(item.Namespace) > 0 THEN item.Namespace[1] ELSE EmptyString
    ELSE awsToString(item.Name)

Min(a, b) == IF a <= b THEN a ELSE b

\* ------------------------------------------------------- the remote service
\* The ARN the service gives a bucket, and a table: opaque to the client.
ArnOf(name) == <<"arn", name>>
TableArnOf(arn, ns, tbl) == <<"tarn", arn, ns, tbl>>

BucketSummary(name) == [Name |-> Some(name), Arn |-> Some(ArnOf(name))]

\* A continuation token is a *string: None (nil), Some(EmptyString), or
\* Some(<<k>>), the decimal string of the index the next page starts at.
StartIndex(token) ==
    IF token = None \/ token[1] = EmptyString THEN 0 ELSE token[1][1]

\* One page of a listing `all`, starting at the token.
PageOf(all, pageSize, token) ==
    LET startIndex == StartIndex(token)
        endIndex == Min(startIndex + pageSize, Len(all))
    IN [Items |-> SubSeq(all, startIndex + 1, endIndex),
        ContinuationToken |->
            IF endIndex < Len(all) THEN Some(<<endIndex>>) ELSE None]

\* ListTableBuckets / ListNamespaces / ListTables (Prefix, ContinuationToken)
\* on the listing `all` the remote holds: the page at the token, of every item
\* held; params.Prefix is not read.
RemoteList(kind, all, pageSize, prefix, token) ==
    PageOf(all, pageSize, token)

\* ListTableBuckets(Prefix, ContinuationToken) on the buckets `buckets`.
RemoteListTableBuckets(buckets, pageSize, prefix, token) ==
    LET page == RemoteList("TableBuckets", buckets, pageSize, prefix, token)
    IN [TableBuckets |-> page.Items, ContinuationToken |-> page.ContinuationToken]

BucketExists(buckets, name) ==
    \E k \in 1..Len(buckets) : buckets[k].Name = Some(name)

\* ------------------------------------------------------------------ errors
\* What a remote call can fail with besides the outcomes its arguments decide
\* (NotFoundException of a lookup, ConflictException of a duplicate creation).
InjectedErrors ==
    {"ForbiddenException", "BadRequestException",
     "InternalServerErrorException", "CredentialError", "OtherError"}

\* Every failure a remote call can answer with: a call can also answer
\* NotFoundException or ConflictException against what the remote held when
\* the call before it was answered (another client deleted or created the
\* resource in between).
RemoteFailures == InjectedErrors \cup {"NotFoundException", "ConflictException"}

ErrorTypeOf(awsErr) ==
    CASE awsErr = "NotFoundException" -> "ErrorTypeNotFound"
      [] awsErr = "ConflictException" -> "ErrorTypeConflict"
      [] awsErr = "ForbiddenException" -> "ErrorTypeForbidden"
      [] awsErr = "BadRequestException" -> "ErrorTypeBadRequest"
      [] awsErr = "InternalServerErrorException" -> "ErrorTypeInternalServer"
      [] awsErr = "CredentialError" -> "ErrorTypeCredentials"
      [] OTHER -> "ErrorTypeUnknown"

\* mutant: the kind is not looked at, every error is wrapped as unknown
WrapError_LosesKind(operation, awsErr) ==
    [Operation |-> operation, Type |-> "ErrorTypeUnknown", OriginalErr |-> awsErr]

WrapError(operation, awsErr) ==
    [Operation |-> operation, Type |-> ErrorTypeOf(awsErr), OriginalErr |-> awsErr]

isNotFoundError(awsErr) == awsErr = "NotFoundException"

\* ------------------------------------------------------------ the creator
EmptyResult ==
    [TableBucketARN |-> EmptyString, TableARN |-> EmptyString, Messages |-> << >>,
     TableBucketCreated |-> FALSE, NamespaceCreated |-> FALSE, TableCreated |-> FALSE]

\* mutant: every log line says "created"
Message_AlwaysCreated(kind, name, what) == <<kind, name, "created">>

\* fmt.Sprintf("<kind> '%s' <what>", name): the parts of the log line
Message(kind, name, what) == <<kind, name, what>>

RECURSIVE FindBucket(_, _)
\* mutant: the first listed bucket whose name starts with the requested name
FindBucket_PrefixMatch(tableBuckets, tableBucket) ==
    LET found == {k \in DOMAIN tableBuckets :
                     HasPrefix(awsToString(tableBuckets[k].Name), tableBucket)}
    IN IF found = {} THEN [exists |-> FALSE, arn |-> EmptyString, err |-> None]
       ELSE LET k == CHOOSE j \in found : \A m \in found : j <= m
            IN [exists |-> TRUE, arn |-> awsToString(tableBuckets[k].Arn), err |-> None]

\* the loop of checkTableBucketExists over output.TableBuckets
FindBucket(tableBuckets, tableBucket) ==
    IF tableBuckets = << >> THEN [exists |-> FALSE, arn |-> EmptyString, err |-> None]
    ELSE IF awsToString(Head(tableBuckets).Name) = tableBucket
         THEN [exists |-> TRUE, arn |-> awsToString(Head(tableBuckets).Arn), err |-> None]
         ELSE FindBucket(Tail(tableBuckets), tableBucket)

\* mutant: the bucket is found but its ARN is not taken from the listing
checkTableBucketExists_NoArn(callErr, tableBuckets, tableBucket) ==
    IF callErr # None
    THEN [exists |-> FALSE, arn |-> EmptyString,
          err |-> Some(WrapError("ListTableBuckets", callErr[1]))]
    ELSE [FindBucket(tableBuckets, tableBucket) EXCEPT !.arn = EmptyString]

\* checkTableBucketExists, given what its one ListTableBuckets call returned
checkTableBucketExists(callErr, tableBuckets, tableBucket) ==
    IF callErr # None
    THEN [exists |-> FALSE, arn |-> EmptyString,
          err |-> Some(WrapError("ListTableBuckets", callErr[1]))]
    ELSE FindBucket(tableBuckets, tableBucket)

\* mutant: a NotFound of GetNamespace is taken for "the namespace exists"
checkNamespaceExists_NotFoundExists(callErr) ==
    IF callErr # None
    THEN IF isNotFoundError(callErr[1])
         THEN [exists |-> TRUE, err |-> None]
         ELSE [exists |-> FALSE, err |-> Some(WrapError("GetNamespace", callErr[1]))]
    ELSE [exists |-> TRUE, err |-> None]

\* checkNamespaceExists, given what its GetNamespace call returned
checkNamespaceExists(callErr) ==
    IF callErr # None
    THEN IF isNotFoundError(callErr[1])
         THEN [exists |-> FALSE, err |-> None]
         ELSE [exists |-> FALSE, err |-> Some(WrapError("GetNamespace", callErr[1]))]
    ELSE [exists |-> TRUE, err |-> None]

\* mutant: a NotFound of GetTable is returned as an error like any other
checkTableExists_NotFoundPropagates(callErr, outputTableARN) ==
    IF callErr # None
    THEN [exists |-> FALSE, tableARN |-> EmptyString,
          err |-> Some(WrapError("GetTable", callErr[1]))]
    ELSE [exists |-> TRUE, tableARN |-> outputTableARN, err |-> None]

\* mutant: every error of GetTable is taken for "not found"
checkTableExists_Swallow(callErr, outputTableARN) ==
    IF callErr # None
    THEN [exists |-> FALSE, tableARN |-> EmptyString, err |-> None]
    ELSE [exists |-> TRUE, tableARN |-> outputTableARN, err |-> None]

\* checkTableExists, given what its GetTable call returned
checkTableExists(callErr, outputTableARN) ==
    IF callErr # None
    THEN IF isNotFoundError(callErr[1])
         THEN [exists |-> FALSE, tableARN |-> EmptyString, err |-> None]
         ELSE [exists |-> FALSE, tableARN |-> EmptyString,
               err |-> Some(WrapError("GetTable", callErr[1]))]
    ELSE [exists |-> TRUE, tableARN |-> outputTableARN, err |-> None]

\* The errors a call can return: the one its arguments and the remote's state
\* decide, or one of the failures that have an outside reason.
CallErrors(decided) ==
    {decided} \cup (IF faults > 0 THEN {Some(e) : e \in rFailures} ELSE {})

\* A failure for an outside reason uses up one of those the run may still see.
Spend(decided, callErr) ==
    faults' = IF callErr # None /\ callErr # decided THEN faults - 1 ELSE faults

Invocations == DOMAIN pc

\* mutant: the error is recorded but a failed create step does not return
ReturnError_NoAbort(i, err) ==
    /\ ret' = [ret EXCEPT ![i] = [result |-> None, err |-> Some(err)]]
    /\ pc' = [pc EXCEPT ![i] =
                CASE pc[i] = "createTableBucket" -> "checkNamespace"
                  [] pc[i] = "createNamespace" -> "checkTable"
                  [] OTHER -> "done"]

\* mutant: return result, err (the partly filled result goes out with the error)
ReturnError_Partial(i, err) ==
    /\ ret' = [ret EXCEPT ![i] = [result |-> Some(result[i]), err |-> Some(err)]]
    /\ pc' = [pc EXCEPT ![i] = "done"]

\* return nil, err
ReturnError(i, err) ==
    /\ ret' = [ret EXCEPT ![i] = [result |-> None, err |-> Some(err)]]
    /\ pc' = [pc EXCEPT ![i] = "done"]

\* return result, nil
ReturnResult(i, res) ==
    /\ ret' = [ret EXCEPT ![i] = [result |-> Some(res), err |-> None]]
    /\ pc' = [pc EXCEPT ![i] = "done"]

\* a remote call is made: its operation, the TableBucketARN of its input (none
\* for the bucket operations), and the error it returns
Called(i, op, arn, callErr) ==
    calls' = [calls EXCEPT ![i] = Append(@, [op |-> op, arn |-> arn, err |-> callErr])]

NamespaceExists(arn, ns) == <<arn, ns>> \in rNamespaces
TableExists(arn, ns, tbl) == <<arn, ns, tbl>> \in rTables

ExistingLevels ==
    LET arn == ArnOf(args.tableBucket)
    IN {l \in Levels :
          \/ l = "bucket" /\ BucketExists(rBuckets, args.tableBucket)
          \/ l = "namespace" /\ NamespaceExists(arn, args.namespace)
          \/ l = "table" /\ TableExists(arn, args.namespace, args.table)}

\* mutant: a Conflict of a create call is taken for "exists now" and Create
\* goes on
AbortCreate_ConflictTolerated(i, operation, awsErr) ==
    /\ IF awsErr # "ConflictException"
       THEN ReturnError(i, WrapError(operation, awsErr))
       ELSE IF pc[i] = "createTable"
       THEN ReturnResult(i, result[i])
       ELSE /\ pc' = [pc EXCEPT ![i] = IF pc[i] = "createTableBucket"
                                        THEN "checkNamespace" ELSE "checkTable"]
            /\ UNCHANGED ret
    /\ UNCHANGED <<rBuckets, rNamespaces, rTables, result, bucketARN, made>>

\* mutant: a failed create step deletes the bucket this invocation created
AbortCreate_Rollback(i, operation, awsErr) ==
    /\ ReturnError(i, WrapError(operation, awsErr))
    /\ rBuckets' = IF "bucket" \in made[i]
                   THEN SelectSeq(rBuckets, LAMBDA b : b.Name # Some(args.tableBucket))
                   ELSE rBuckets
    /\ UNCHANGED <<rNamespaces, rTables, result, bucketARN, made>>

\* a create call failed: Create returns nil and the wrapped error; what the
\* earlier steps created stays
AbortCreate(i, operation, awsErr) ==
    /\ ReturnError(i, WrapError(operation, awsErr))
    /\ UNCHANGED <<rBuckets, rNamespaces, rTables, result, bucketARN, made>>

\* Create is entered: result := &CreateResult{Messages: []}
Begin(i) ==
    /\ pc[i] = "idle"
    /\ pc' = [pc EXCEPT ![i] = "checkTableBucket"]
    /\ result' = [result EXCEPT ![i] = EmptyResult]
    /\ pre' = [pre EXCEPT ![i] = ExistingLevels]
    /\ UNCHANGED <<remoteVars, faults, args, bucketARN, ret, calls, seen, was, made>>
    /\ UNCHANGED <<listerVars, navVars, cmdVars>>

\* One client calls Create again only after the previous call returned.
BeginSeq(i) ==
    /\ \A j \in Invocations : j < i => pc[j] = "done"
    /\ Begin(i)

\* ensureTableBucket, up to and including checkTableBucketExists
EnsureTableBucketCheck(i) ==
    /\ pc[i] = "checkTableBucket"
    /\ \E callErr \in CallErrors(None) :
         /\ Spend(None, callErr)
         /\ Called(i, "ListTableBuckets", None, callErr)
         /\ LET output == RemoteListTableBuckets(rBuckets, rPageSize,
                                                 Some(args.tableBucket), None)
                chk == checkTableBucketExists(callErr, output.TableBuckets,
                                              args.tableBucket)
            IN IF chk.err # None
               THEN /\ ReturnError(i, chk.err[1])
                    /\ UNCHANGED <<result, bucketARN, seen, was>>
               ELSE /\ seen' = [seen EXCEPT ![i]["bucket"] =
                                   IF chk.exists THEN "exists" ELSE "absent"]
                    /\ was' = [was EXCEPT ![i]["bucket"] =
                                   IF BucketExists(rBuckets, args.tableBucket)
                                   THEN "exists" ELSE "absent"]
                    /\ IF chk.exists
                       THEN /\ result' = [result EXCEPT ![i] =
                                   [@ EXCEPT !.TableBucketARN = chk.arn,
                                             !.Messages = Append(@, Message("Table Bucket",
                                                     args.tableBucket, "already exists"))]]
                            /\ bucketARN' = [bucketARN EXCEPT ![i] = chk.arn]
                            /\ pc' = [pc EXCEPT ![i] = "checkNamespace"]
                       ELSE /\ pc' = [pc EXCEPT ![i] = "createTableBucket"]
                            /\ UNCHANGED <<result, bucketARN>>
                    /\ UNCHANGED ret
    /\ UNCHANGED <<remoteVars, args, made, pre, listerVars, navVars, cmdVars>>

\* ensureTableBucket, the CreateTableBucket call and what follows it
EnsureTableBucketCreate(i) ==
    /\ pc[i] = "createTableBucket"
    /\ \E callErr \in CallErrors(IF BucketExists(rBuckets, args.tableBucket)
                                 THEN Some("ConflictException") ELSE None) :
         /\ Spend(IF BucketExists(rBuckets, args.tableBucket)
                  THEN Some("ConflictException") ELSE None,
                  callErr)
         /\ Called(i, "CreateTableBucket", None, callErr)
         /\ IF callErr # None
            THEN AbortCreate(i, "CreateTableBucket", callErr[1])
            ELSE LET output == BucketSummary(args.tableBucket)
                 IN /\ rBuckets' = Append(rBuckets, output)
                    /\ made' = [made EXCEPT ![i] = @ \cup {"bucket"}]
                    /\ result' = [result EXCEPT ![i] =
                           [@ EXCEPT !.TableBucketCreated = TRUE,
                                     !.TableBucketARN = awsToString(output.Arn),
                                     !.Messages = Append(@, Message("Table Bucket",
                                                     args.tableBucket, "created"))]]
                    /\ bucketARN' = [bucketARN EXCEPT ![i] = awsToString(output.Arn)]
                    /\ pc' = [pc EXCEPT ![i] = "checkNamespace"]
                    /\ UNCHANGED <<rNamespaces, rTables, ret>>
    /\ UNCHANGED <<rPageSize, rFailures, args, seen, was, pre>>
    /\ UNCHANGED <<listerVars, navVars, cmdVars>>

\* ensureNamespace, up to and including checkNamespaceExists (GetNamespace)
EnsureNamespaceCheck(i) ==
    /\ pc[i] = "checkNamespace"
    /\ \E callErr \in CallErrors(IF NamespaceExists(bucketARN[i], args.namespace)
                                 THEN None ELSE Some("NotFoundException")) :
         /\ Spend(IF NamespaceExists(bucketARN[i], args.namespace)
                  THEN None ELSE Some("NotFoundException"),
                  callErr)
         /\ Called(i, "GetNamespace", Some(bucketARN[i]), callErr)
         /\ LET chk == checkNamespaceExists(callErr)
            IN IF chk.err # None
               THEN /\ ReturnError(i, chk.err[1])
                    /\ UNCHANGED <<result, seen, was>>
               ELSE /\ seen' = [seen EXCEPT ![i]["namespace"] =
                                   IF chk.exists THEN "exists" ELSE "absent"]
                    /\ was' = [was EXCEPT ![i]["namespace"] =
                                   IF NamespaceExists(bucketARN[i], args.namespace)
                                   THEN "exists" ELSE "absent"]
                    /\ IF chk.exists
                       THEN /\ result' = [result EXCEPT ![i] =
                                   [@ EXCEPT !.Messages = Append(@, Message("Namespace",
                                                     args.namespace, "already exists"))]]
                            /\ pc' = [pc EXCEPT ![i] = "checkTable"]
                       ELSE /\ pc' = [pc EXCEPT ![i] = "createNamespace"]
                            /\ UNCHANGED result
                    /\ UNCHANGED ret
    /\ UNCHANGED <<remoteVars, args, bucketARN, made, pre, listerVars, navVars, cmdVars>>

\* ensureNamespace, the CreateNamespace call and what follows it
EnsureNamespaceCreate(i) ==
    /\ pc[i] = "createNamespace"
    /\ \E callErr \in CallErrors(IF NamespaceExists(bucketARN[i], args.namespace)
                                 THEN Some("ConflictException") ELSE None) :
         /\ Spend(IF NamespaceExists(bucketARN[i], args.namespace)
                  THEN Some("ConflictException") ELSE None,
                  callErr)
         /\ Called(i, "CreateNamespace", Some(bucketARN[i]), callErr)
         /\ IF callErr # None
            THEN AbortCreate(i, "CreateNamespace", callErr[1])
            ELSE /\ rNamespaces' = rNamespaces \cup {<<bucketARN[i], args.namespace>>}
                 /\ made' = [made EXCEPT ![i] = @ \cup {"namespace"}]
                 /\ result' = [result EXCEPT ![i] =
                        [@ EXCEPT !.NamespaceCreated = TRUE,
                                  !.Messages = Append(@, Message("Namespace",
                                                     args.namespace, "created"))]]
                 /\ pc' = [pc EXCEPT ![i] = "checkTable"]
                 /\ UNCHANGED <<rBuckets, rTables, bucketARN, ret>>
    /\ UNCHANGED <<rPageSize, rFailures, args, seen, was, pre>>
    /\ UNCHANGED <<listerVars, navVars, cmdVars>>

\* ensureTable, up to and including checkTableExists (GetTable); Create
\* returns the result when the table exists
EnsureTableCheck(i) ==
    /\ pc[i] = "checkTable"
    /\ \E callErr \in CallErrors(IF TableExists(bucketARN[i], args.namespace, args.table)
                                 THEN None ELSE Some("NotFoundException")) :
         /\ Spend(IF TableExists(bucketARN[i], args.namespace, args.table)
                  THEN None ELSE Some("NotFoundException"),
                  callErr)
         /\ Called(i, "GetTable", Some(bucketARN[i]), callErr)
         /\ LET chk == checkTableExists(callErr,
                           TableArnOf(bucketARN[i], args.namespace, args.table))
                res == [result[i] EXCEPT !.TableARN = chk.tableARN,
                                         !.Messages = Append(@, Message("Table",
                                                     args.table, "already exists"))]
            IN IF chk.err # None
               THEN /\ ReturnError(i, chk.err[1])
                    /\ UNCHANGED <<result, seen, was>>
               ELSE /\ seen' = [seen EXCEPT ![i]["table"] =
                                   IF chk.exists THEN "exists" ELSE "absent"]
                    /\ was' = [was EXCEPT ![i]["table"] =
                                   IF TableExists(bucketARN[i], args.namespace, args.table)
                                   THEN "exists" ELSE "absent"]
                    /\ IF chk.exists
                       THEN /\ result' = [result EXCEPT ![i] = res]
                            /\ ReturnResult(i, res)
                       ELSE /\ pc' = [pc EXCEPT ![i] = "createTable"]
                            /\ UNCHANGED <<result, ret>>
    /\ UNCHANGED <<remoteVars, args, bucketARN, made, pre, listerVars, navVars, cmdVars>>

\* ensureTable, the CreateTable call and what follows it; Create returns
EnsureTableCreate(i) ==
    /\ pc[i] = "createTable"
    /\ \E callErr \in CallErrors(IF TableExists(bucketARN[i], args.namespace, args.table)
                                 THEN Some("ConflictException") ELSE None) :
         /\ Spend(IF TableExists(bucketARN[i], args.namespace, args.table)
                  THEN Some("ConflictException") ELSE None,
                  callErr)
         /\ Called(i, "CreateTable", Some(bucketARN[i]), callErr)
         /\ IF callErr # None
            THEN AbortCreate(i, "CreateTable", callErr[1])
            ELSE LET res == [result[i] EXCEPT
                                !.TableCreated = TRUE,
                                !.TableARN = TableArnOf(bucketARN[i], args.namespace,
                                                        args.table),
                                !.Messages = Append(@, Message("Table", args.table,
                                                               "created"))]
                 IN /\ rTables' = rTables \cup
                                     {<<bucketARN[i], args.namespace, args.table>>}
                    /\ made' = [made EXCEPT ![i] = @ \cup {"table"}]
                    /\ result' = [result EXCEPT ![i] = res]
                    /\ ReturnResult(i, res)
                    /\ UNCHANGED <<rBuckets, rNamespaces, bucketARN>>
    /\ UNCHANGED <<rPageSize, rFailures, args, seen, was, pre>>
    /\ UNCHANGED <<listerVars, navVars, cmdVars>>


\* ------------------------------------------------------------- the lister
\* The items the remote can list (types.TableBucketSummary, NamespaceSummary,
\* TableSummary; the creation time, which the lister copies, is left out).
RawItems(kind) ==
    CASE kind = "TableBuckets" ->
            {BucketSummary(<<"a">>), BucketSummary(<<"b">>), [Name |-> None, Arn |-> None]}
      [] kind = "Namespaces" ->
            {[Namespace |-> <<NamespaceName>>], [Namespace |-> <<<<"m">>, NamespaceName>>],
             [Namespace |-> << >>]}
      [] kind = "Tables" ->
            {[Name |-> Some(TableName),
              TableARN |-> Some(TableArnOf(ArnOf(<<"a">>), NamespaceName, TableName)),
              Namespace |-> <<NamespaceName>>, Type |-> "customer"],
             [Name |-> Some(<<"u">>),
              TableARN |-> Some(TableArnOf(ArnOf(<<"a">>), <<"m">>, <<"u">>)),
              Namespace |-> <<<<"m">>, NamespaceName>>, Type |-> "aws"],
             [Name |-> None, TableARN |-> None, Namespace |-> << >>, Type |-> ""]}

TableBucketInfoOf(bucket) ==
    [Name |-> awsToString(bucket.Name), ARN |-> awsToString(bucket.Arn)]

NamespaceInfoOf(ns) ==
    [Name |-> IF Len(ns.Namespace) > 0 THEN ns.Namespace[1] ELSE EmptyString]

TableInfoOf(tbl) ==
    [Name |-> awsToString(tbl.Name), ARN |-> awsToString(tbl.TableARN),
     Namespace |-> IF Len(tbl.Namespace) > 0 THEN tbl.Namespace[1] ELSE EmptyString,
     Type |-> tbl.Type]

InfoOf(kind, item) ==
    CASE kind = "TableBuckets" -> TableBucketInfoOf(item)
      [] kind = "Namespaces" -> NamespaceInfoOf(item)
      [] kind = "Tables" -> TableInfoOf(item)

ListOpOf(kind) ==
    CASE kind = "TableBuckets" -> "ListTableBuckets"
      [] kind = "Namespaces" -> "ListNamespaces"
      [] kind = "Tables" -> "ListTables"

\* the elements of a slice (none for nil)
Elems(slice) == IF slice = None THEN << >> ELSE slice[1]

\* append(slice, items...), item by item: a nil slice stays nil when nothing
\* is appended
AppendAll(slice, items) ==
    IF items = << >> THEN slice ELSE Some(Elems(slice) \o items)

\* mutant: the loop gives up at a page without items
LoopBody_StopsOnEmptyPage(kind, callErr, output, acc) ==
    IF callErr # None
    THEN [done |-> TRUE, items |-> None, token |-> None,
          err |-> Some(WrapError(ListOpOf(kind), callErr[1]))]
    ELSE LET infos == [k \in DOMAIN output.Items |-> InfoOf(kind, output.Items[k])]
             acc2 == AppendAll(acc, infos)
         IN IF awsToString(output.ContinuationToken) = EmptyString \/ output.Items = << >>
            THEN [done |-> TRUE, items |-> acc2, token |-> None, err |-> None]
            ELSE [done |-> FALSE, items |-> acc2, token |-> output.ContinuationToken,
                  err |-> None]

\* mutant: the loop ends on a nil token only, an empty one is sent back
LoopBody_NilOnly(kind, callErr, output, acc) ==
    IF callErr # None
    THEN [done |-> TRUE, items |-> None, token |-> None,
          err |-> Some(WrapError(ListOpOf(kind), callErr[1]))]
    ELSE LET infos == [k \in DOMAIN output.Items |-> InfoOf(kind, output.Items[k])]
             acc2 == AppendAll(acc, infos)
         IN IF output.ContinuationToken = None
            THEN [done |-> TRUE, items |-> acc2, token |-> None, err |-> None]
            ELSE [done |-> FALSE, items |-> acc2, token |-> output.ContinuationToken,
                  err |-> None]

\* mutant: return items, WrapError(...) (what was collected goes out with the error)
LoopBody_KeepPartial(kind, callErr, output, acc) ==
    IF callErr # None
    THEN [done |-> TRUE, items |-> acc, token |-> None,
          err |-> Some(WrapError(ListOpOf(kind), callErr[1]))]
    ELSE LET infos == [k \in DOMAIN output.Items |-> InfoOf(kind, output.Items[k])]
             acc2 == AppendAll(acc, infos)
         IN IF awsToString(output.ContinuationToken) = EmptyString
            THEN [done |-> TRUE, items |-> acc2, token |-> None, err |-> None]
            ELSE [done |-> FALSE, items |-> acc2, token |-> output.ContinuationToken,
                  err |-> None]

\* mutant: a listing call that answers NotFound is taken for the end of an
\* empty listing
LoopBody_NotFoundAsEmpty(kind, callErr, output, acc) ==
    IF callErr # None /\ isNotFoundError(callErr[1])
    THEN [done |-> TRUE, items |-> acc, token |-> None, err |-> None]
    ELSE IF callErr # None
    THEN [done |-> TRUE, items |-> None, token |-> None,
          err |-> Some(WrapError(ListOpOf(kind), callErr[1]))]
    ELSE LET infos == [k \in DOMAIN output.Items |-> InfoOf(kind, output.Items[k])]
             acc2 == AppendAll(acc, infos)
         IN IF awsToString(output.ContinuationToken) = EmptyString
            THEN [done |-> TRUE, items |-> acc2, token |-> None, err |-> None]
            ELSE [done |-> FALSE, items |-> acc2, token |-> output.ContinuationToken,
                  err |-> None]

\* mutant: each page replaces what was collected
LoopBody_Overwrite(kind, callErr, output, acc) ==
    IF callErr # None
    THEN [done |-> TRUE, items |-> None, token |-> None,
          err |-> Some(WrapError(ListOpOf(kind), callErr[1]))]
    ELSE LET infos == [k \in DOMAIN output.Items |-> InfoOf(kind, output.Items[k])]
             acc2 == AppendAll(None, infos)
         IN IF awsToString(output.ContinuationToken) = EmptyString
            THEN [done |-> TRUE, items |-> acc2, token |-> None, err |-> None]
            ELSE [done |-> FALSE, items |-> acc2, token |-> output.ContinuationToken,
                  err |-> None]

\* One pass of the for loop of ListTableBucketsAll / ListNamespacesAll /
\* ListTablesAll, given what the listing call returned: the error return, or
\* the appends and the test that breaks the loop.
LoopBody(kind, callErr, output, acc) ==
    IF callErr # None
    THEN [done |-> TRUE, items |-> None, token |-> None,
          err |-> Some(WrapError(ListOpOf(kind), callErr[1]))]
    ELSE LET infos == [k \in DOMAIN output.Items |-> InfoOf(kind, output.Items[k])]
             acc2 == AppendAll(acc, infos)
         IN IF awsToString(output.ContinuationToken) = EmptyString
            THEN [done |-> TRUE, items |-> acc2, token |-> None, err |-> None]
            ELSE [done |-> FALSE, items |-> acc2, token |-> output.ContinuationToken,
                  err |-> None]

\* input.Prefix: set only for a non-empty prefix
PrefixInput(prefix) == IF prefix # EmptyString THEN Some(prefix) ELSE None

\* the table bucket and the namespace the aggregations of SpecList are called for
ListedBucketARN == ArnOf(<<"a">>)
ListedNamespace == NamespaceName

\* input := &s3tables.List...Input{...}: the fields each listing call is given
ListInput(kind, arn, ns, prefix, token) ==
    [TableBucketARN |-> IF kind = "TableBuckets" THEN None ELSE Some(arn),
     Namespace |-> IF kind = "Tables" THEN Some(ns) ELSE None,
     Prefix |-> PrefixInput(prefix),
     ContinuationToken |-> token]

\* The tokens with which the remote can end a listing: none, or an empty one.
EndTokens == {None, Some(EmptyString)}

\* ListXAll is entered: var items []X; var continuationToken *string
ListAllBegin ==
    /\ lsPc = "idle"
    /\ lsPc' = "loop"
    /\ lsToken' = None
    /\ lsAcc' = None
    /\ UNCHANGED <<lsKind, lsAll, lsPrefix, lsArn, lsNs, lsChanged, lsPages, lsReqs,
                   lsLast, lsRet>>
    /\ UNCHANGED <<remoteVars, faults, creatorVars, navVars, cmdVars>>

\* one pass of the loop: the listing call, the appends, break or continue
ListAllPage ==
    /\ lsPc = "loop"
    /\ \E callErr \in CallErrors(None), endToken \in EndTokens :
         /\ Spend(None, callErr)
         /\ LET input == ListInput(lsKind, lsArn, lsNs, lsPrefix, lsToken)
                page == RemoteList(lsKind, lsAll, rPageSize, input.Prefix,
                                   input.ContinuationToken)
                output == [Items |-> page.Items,
                           ContinuationToken |->
                               IF page.ContinuationToken = None THEN endToken
                               ELSE page.ContinuationToken]
                pass == LoopBody(lsKind, callErr, output, lsAcc)
            IN /\ lsPages' = IF callErr = None THEN Append(lsPages, output.Items)
                             ELSE lsPages
               /\ lsReqs' = Append(lsReqs,
                                   [input |-> input,
                                    err |-> callErr,
                                    token |-> IF callErr = None
                                              THEN output.ContinuationToken ELSE None])
               /\ IF pass.done
                  THEN /\ lsRet' = [items |-> pass.items, err |-> pass.err]
                       /\ lsPc' = "done"
                       /\ UNCHANGED <<lsToken, lsAcc>>
                  ELSE /\ lsToken' = pass.token
                       /\ lsAcc' = pass.items
                       /\ UNCHANGED <<lsRet, lsPc>>
    /\ UNCHANGED <<lsKind, lsAll, lsPrefix, lsArn, lsNs, lsChanged, lsLast>>
    /\ UNCHANGED <<remoteVars, creatorVars, navVars, cmdVars>>

\* The tokens with which a remote can go on for as long as it likes.
DrainTokens == {Some(<<1>>), Some(<<2>>)}

\* The pages a remote that has no listing of its own can still answer with: an
\* empty one, or one item as long as fewer than MaxDrainItems were handed out.
DrainPages(kind, acc) ==
    {<< >>} \cup (IF Len(Elems(acc)) < MaxDrainItems
                  THEN {<<item>> : item \in RawItems(kind)}
                  ELSE {})

\* one pass of the loop against a remote that answers as it likes: with a
\* failure, with a page and no token or an empty one, or with a page and a
\* token, any number of times
ListAllPageDrain ==
    /\ lsPc = "loop"
    /\ \E callErr \in CallErrors(None), token \in EndTokens \cup DrainTokens,
          items \in DrainPages(lsKind, lsAcc) :
         /\ Spend(None, callErr)
         /\ LET output == [Items |-> items, ContinuationToken |-> token]
                pass == LoopBody(lsKind, callErr, output, lsAcc)
            IN /\ lsLast' = Some(IF callErr # None
                                 THEN [items |-> << >>, token |-> None, err |-> callErr]
                                 ELSE [items |-> items, token |-> token, err |-> None])
               /\ IF pass.done
                  THEN /\ lsRet' = [items |-> pass.items, err |-> pass.err]
                       /\ lsPc' = "done"
                       /\ UNCHANGED <<lsToken, lsAcc>>
                  ELSE /\ lsToken' = pass.token
                       /\ lsAcc' = pass.items
                       /\ UNCHANGED <<lsRet, lsPc>>
    /\ UNCHANGED <<lsKind, lsAll, lsPrefix, lsArn, lsNs, lsChanged, lsPages, lsReqs>>
    /\ UNCHANGED <<remoteVars, creatorVars, navVars, cmdVars>>

\* ---------------------------------------------------------- the navigator
LevelTableBucket == "LevelTableBucket"
LevelNamespace == "LevelNamespace"
LevelTable == "LevelTable"

ActionSelect == "ActionSelect"
ActionBack == "ActionBack"
ActionExit == "ActionExit"

\* &NavigationState{}: the zero value
ZeroState ==
    [Level |-> LevelTableBucket, TableBuckets |-> None, Namespaces |-> None,
     Tables |-> None, SelectedBucket |-> EmptyString,
     SelectedBucketARN |-> EmptyString, SelectedNamespace |-> EmptyString]

SetInitialState(st, bucketName, arn, namespace) ==
    [st EXCEPT !.SelectedBucket = bucketName, !.SelectedBucketARN = arn,
               !.SelectedNamespace = namespace]

\* The names of the remote's k-th bucket, namespace and table: k letters.
Rep(c, k) == [j \in 1..k |-> c]
NavBucketName(k) == Rep("b", k)
NavNamespaceName(k) == Rep("n", k)
NavTableName(k) == Rep("t", k)

\* The listing of n items the remote holds, when asked, for the buckets, for
\* the namespaces of bucket arn, or for the tables of namespace ns of bucket arn.
NavListing(kind, arn, ns, n) ==
    CASE kind = "TableBuckets" -> [k \in 1..n |-> BucketSummary(NavBucketName(k))]
      [] kind = "Namespaces" -> [k \in 1..n |-> [Namespace |-> <<NavNamespaceName(k)>>]]
      [] kind = "Tables" ->
            [k \in 1..n |->
                [Name |-> Some(NavTableName(k)),
                 TableARN |-> Some(TableArnOf(arn, ns, NavTableName(k))),
                 Namespace |-> <<ns>>, Type |-> "customer"]]

\* the listing a level presents
KindAt(level) ==
    CASE level = LevelTableBucket -> "TableBuckets"
      [] level = LevelNamespace -> "Namespaces"
      [] level = LevelTable -> "Tables"

\* the cache of a listing kind
CacheOf(st, kind) ==
    CASE kind = "TableBuckets" -> st.TableBuckets
      [] kind = "Namespaces" -> st.Namespaces
      [] kind = "Tables" -> st.Tables

\* the parent context a listing of that kind belongs to: none, the selected
\* bucket, the selected bucket and namespace
ContextOf(st, kind) ==
    CASE kind = "TableBuckets" -> <<EmptyString, EmptyString>>
      [] kind = "Namespaces" -> <<st.SelectedBucketARN, EmptyString>>
      [] kind = "Tables" -> <<st.SelectedBucketARN, st.SelectedNamespace>>

\* ListXAll is called with these arguments, the remote holding the listing
\* `all` for them: var items []X; var continuationToken *string
ListerCalled(kind, arn, ns, prefix, all) ==
    /\ lsKind' = kind
    /\ lsArn' = arn
    /\ lsNs' = ns
    /\ lsPrefix' = prefix
    /\ lsAll' = all
    /\ lsChanged' = 0
    /\ lsPc' = "loop"
    /\ lsToken' = None
    /\ lsAcc' = None
    /\ lsPages' = << >>
    /\ lsReqs' = << >>
    /\ lsRet' = [items |-> None, err |-> None]
    /\ UNCHANGED lsLast

\* the caller has taken what ListXAll returned: no aggregation is under way
ListerReturned ==
    /\ lsKind' = "TableBuckets"
    /\ lsArn' = EmptyString
    /\ lsNs' = EmptyString
    /\ lsPrefix' = EmptyString
    /\ lsAll' = << >>
    /\ lsChanged' = 0
    /\ lsPc' = "done"
    /\ lsToken' = None
    /\ lsAcc' = None
    /\ lsPages' = << >>
    /\ lsReqs' = << >>
    /\ lsRet' = [items |-> None, err |-> None]
    /\ UNCHANGED lsLast

\* a listing without its k-th item
Without(s, k) == SubSeq(s, 1, k - 1) \o SubSeq(s, k + 1, Len(s))

\* Between two listing calls of an aggregation another client deletes the item
\* the remote lists first for the request: what the next call is answered
\* with has moved up by one. The remote changes under the lookup and under the
\* first aggregation of a session, MaxRemoteChanges times at most in each.
RemoteDeletes ==
    /\ nvPc \in {"lookup", "listing"}
    /\ nvFetches = << >>
    /\ lsPc = "loop"
    /\ lsReqs # << >>
    /\ lsChanged < MaxRemoteChanges
    /\ lsAll # << >>
    /\ lsAll' = Without(lsAll, 1)
    /\ lsChanged' = lsChanged + 1
    /\ UNCHANGED <<lsKind, lsPrefix, lsArn, lsNs, lsPc, lsToken, lsAcc, lsPages, lsReqs,
                   lsLast, lsRet>>
    /\ UNCHANGED <<remoteVars, faults, creatorVars, navVars, cmdVars>>

\* mutant: the listing is fetched on every visit
NeedsFetch_Always(cache) == TRUE

\* if c.state.X == nil
NeedsFetch(cache) == cache = None

\* S3TablesLister.GetTableBucketARN from the return of ListTableBucketsAll on:
\* the ARN of the first bucket of that name, or a not-found error
GetTableBucketARN(got, tableBucketName) ==
    LET buckets == Elems(got.items)
        found == {k \in DOMAIN buckets : buckets[k].Name = tableBucketName}
    IN IF got.err # None THEN [arn |-> EmptyString, err |-> got.err]
       ELSE IF found = {}
       THEN [arn |-> EmptyString,
             err |-> Some([Operation |-> "GetTableBucketARN",
                           Type |-> "ErrorTypeNotFound", OriginalErr |-> ""])]
       ELSE [arn |-> buckets[CHOOSE k \in found : \A j \in found : k <= j].ARN,
             err |-> None]

\* an error that is not an *S3TablesError
PlainError(msg) == [Operation |-> "", Type |-> "", OriginalErr |-> msg]

Names(cache) == [k \in DOMAIN Elems(cache) |-> Elems(cache)[k].Name]

\* mutant: the back entry is offered at every level
ShowBack_Always(level) == TRUE

\* the showBack argument of the SelectWithFilter call of a level
ShowBack(level) == level # LevelTableBucket

\* mutant: every prompt carries the label of the top level
Label_Same(level) == "Select Table Bucket"

\* the label argument of the SelectWithFilter call of a level
Label(level) ==
    CASE level = LevelTableBucket -> "Select Table Bucket"
      [] level = LevelNamespace -> "Select Namespace"
      [] level = LevelTable -> "Select Table"

\* What InteractiveSelector.SelectWithFilter can return for these items; an
\* empty list is rejected with an error.
SelectorResults(label, items, showBack) ==
    IF Len(items) = 0
    THEN {[Selected |-> EmptyString, Action |-> ActionExit,
           err |-> Some(PlainError("no items to select")), Asked |-> TRUE,
           ShowBack |-> showBack, Label |-> label]}
    ELSE
    {[Selected |-> items[k], Action |-> ActionSelect, err |-> None, Asked |-> TRUE,
      ShowBack |-> showBack, Label |-> label] : k \in DOMAIN items}
    \cup {[Selected |-> EmptyString, Action |-> a, err |-> None, Asked |-> TRUE,
           ShowBack |-> showBack, Label |-> label] : a \in {ActionBack, ActionExit}}
    \cup (IF faults > 0
          THEN {[Selected |-> EmptyString, Action |-> ActionExit,
                 err |-> Some(PlainError("selection failed")), Asked |-> TRUE,
                 ShowBack |-> showBack, Label |-> label]}
          ELSE {})

\* the selector is asked only for a non-empty list
NotAsked ==
    [Selected |-> EmptyString, Action |-> ActionExit, err |-> None, Asked |-> FALSE,
     ShowBack |-> FALSE, Label |-> ""]

\* mutant: the selector is asked for an empty list too
Prompt_AlwaysAsk(label, cache, showBack) ==
    SelectorResults(label, Names(cache), showBack)

\* SelectWithFilter is reached only past the "len(...) == 0" return
Prompt(label, cache, showBack) ==
    IF Len(Elems(cache)) = 0 THEN {NotAsked}
    ELSE SelectorResults(label, Names(cache), showBack)

\* mutant: the name of the selected bucket is stored, the ARN is left as it was
StoreSelectedBucket_NameOnly(st, selected) ==
    LET buckets == Elems(st.TableBuckets)
        found == {k \in DOMAIN buckets : buckets[k].Name = selected}
    IN IF found = {} THEN st
       ELSE LET k == CHOOSE j \in found : \A i \in found : j <= i
            IN [st EXCEPT !.SelectedBucket = buckets[k].Name]

\* "Find selected bucket and store ARN": the first bucket of that name
StoreSelectedBucket(st, selected) ==
    LET buckets == Elems(st.TableBuckets)
        found == {k \in DOMAIN buckets : buckets[k].Name = selected}
    IN IF found = {} THEN st
       ELSE LET k == CHOOSE j \in found : \A i \in found : j <= i
            IN [st EXCEPT !.SelectedBucket = buckets[k].Name,
                          !.SelectedBucketARN = buckets[k].ARN]

\* mutant: the deeper caches survive the selection of a bucket
navigateTableBuckets_KeepCaches(st, r) ==
    IF Len(Elems(st.TableBuckets)) = 0
    THEN [state |-> st, action |-> ActionExit, err |-> None]
    ELSE IF r.err # None
    THEN [state |-> st, action |-> ActionExit, err |-> r.err]
    ELSE IF r.Action \in {ActionBack, ActionExit}
    THEN [state |-> st, action |-> r.Action, err |-> None]
    ELSE [state |-> StoreSelectedBucket(st, r.Selected),
          action |-> ActionSelect, err |-> None]

\* navigateTableBuckets from "if len(c.state.TableBuckets) == 0" on, the
\* selector returning r
navigateTableBuckets(st, r) ==
    IF Len(Elems(st.TableBuckets)) = 0
    THEN [state |-> st, action |-> ActionExit, err |-> None]
    ELSE IF r.err # None
    THEN [state |-> st, action |-> ActionExit, err |-> r.err]
    ELSE IF r.Action \in {ActionBack, ActionExit}
    THEN [state |-> st, action |-> r.Action, err |-> None]
    ELSE [state |-> [StoreSelectedBucket(st, r.Selected) EXCEPT
                        !.Namespaces = None, !.Tables = None],
          action |-> ActionSelect, err |-> None]

\* mutant: the selection of a namespace drops the namespace list too
navigateNamespaces_SelectClearsList(st, r) ==
    IF Len(Elems(st.Namespaces)) = 0
    THEN [state |-> st, action |-> ActionBack, err |-> None]
    ELSE IF r.err # None
    THEN [state |-> st, action |-> ActionExit, err |-> r.err]
    ELSE IF r.Action = ActionBack
    THEN [state |-> st, action |-> ActionBack, err |-> None]
    ELSE IF r.Action = ActionExit
    THEN [state |-> st, action |-> ActionExit, err |-> None]
    ELSE [state |-> [st EXCEPT !.SelectedNamespace = r.Selected, !.Namespaces = None,
                               !.Tables = None],
          action |-> ActionSelect, err |-> None]

\* mutant: going Back drops the bucket list
navigateNamespaces_ClearOnBack(st, r) ==
    IF Len(Elems(st.Namespaces)) = 0
    THEN [state |-> st, action |-> ActionBack, err |-> None]
    ELSE IF r.err # None
    THEN [state |-> st, action |-> ActionExit, err |-> r.err]
    ELSE IF r.Action = ActionBack
    THEN [state |-> [st EXCEPT !.TableBuckets = None], action |-> ActionBack,
          err |-> None]
    ELSE IF r.Action = ActionExit
    THEN [state |-> st, action |-> ActionExit, err |-> None]
    ELSE [state |-> [st EXCEPT !.SelectedNamespace = r.Selected, !.Tables = None],
          action |-> ActionSelect, err |-> None]

\* navigateNamespaces from "if len(c.state.Namespaces) == 0" on
navigateNamespaces(st, r) ==
    IF Len(Elems(st.Namespaces)) = 0
    THEN [state |-> st, action |-> ActionBack, err |-> None]
    ELSE IF r.err # None
    THEN [state |-> st, action |-> ActionExit, err |-> r.err]
    ELSE IF r.Action = ActionBack
    THEN [state |-> st, action |-> ActionBack, err |-> None]
    ELSE IF r.Action = ActionExit
    THEN [state |-> st, action |-> ActionExit, err |-> None]
    ELSE [state |-> [st EXCEPT !.SelectedNamespace = r.Selected, !.Tables = None],
          action |-> ActionSelect, err |-> None]

\* mutant: going Back from the tables forgets the namespace
navigateTables_BackForgets(st, r) ==
    IF Len(Elems(st.Tables)) = 0
    THEN [state |-> [st EXCEPT !.SelectedNamespace = EmptyString],
          action |-> ActionBack, err |-> None]
    ELSE IF r.err # None
    THEN [state |-> st, action |-> ActionExit, err |-> r.err]
    ELSE IF r.Action = ActionBack
    THEN [state |-> [st EXCEPT !.SelectedNamespace = EmptyString],
          action |-> ActionBack, err |-> None]
    ELSE IF r.Action = ActionExit
    THEN [state |-> st, action |-> ActionExit, err |-> None]
    ELSE [state |-> st, action |-> ActionSelect, err |-> None]

\* mutant: an empty table list ends the session
navigateTables_EmptyExits(st, r) ==
    IF Len(Elems(st.Tables)) = 0
    THEN [state |-> st, action |-> ActionExit, err |-> None]
    ELSE IF r.err # None
    THEN [state |-> st, action |-> ActionExit, err |-> r.err]
    ELSE IF r.Action = ActionBack
    THEN [state |-> st, action |-> ActionBack, err |-> None]
    ELSE IF r.Action = ActionExit
    THEN [state |-> st, action |-> ActionExit, err |-> None]
    ELSE [state |-> st, action |-> ActionSelect, err |-> None]

\* navigateTables from "if len(c.state.Tables) == 0" on
navigateTables(st, r) ==
    IF Len(Elems(st.Tables)) = 0
    THEN [state |-> st, action |-> ActionBack, err |-> None]
    ELSE IF r.err # None
    THEN [state |-> st, action |-> ActionExit, err |-> r.err]
    ELSE IF r.Action = ActionBack
    THEN [state |-> st, action |-> ActionBack, err |-> None]
    ELSE IF r.Action = ActionExit
    THEN [state |-> st, action |-> ActionExit, err |-> None]
    ELSE [state |-> st, action |-> ActionSelect, err |-> None]

\* Navigate returns err (nil: << >>)
NavigateReturns(err) ==
    /\ nvPc' = "done"
    /\ nvErr' = err

\* mutant: Back below the top stays at the level
NextLevel_BackStays(level, action) ==
    CASE level = LevelTableBucket ->
            IF action = ActionSelect THEN LevelNamespace ELSE ""
      [] level = LevelNamespace ->
            IF action = ActionExit THEN ""
            ELSE IF action = ActionBack THEN LevelNamespace ELSE LevelTable
      [] level = LevelTable ->
            IF action = ActionBack THEN LevelTable ELSE ""

\* mutant: a selected table is not the end, the table list comes again
NextLevel_TableSelectStays(level, action) ==
    CASE level = LevelTableBucket ->
            IF action = ActionSelect THEN LevelNamespace ELSE ""
      [] level = LevelNamespace ->
            IF action = ActionExit THEN ""
            ELSE IF action = ActionBack THEN LevelTableBucket ELSE LevelTable
      [] level = LevelTable ->
            IF action = ActionExit THEN ""
            ELSE IF action = ActionBack THEN LevelNamespace ELSE LevelTable

\* mutant: Exit below the top is taken for Back
NextLevel_ExitGoesUp(level, action) ==
    CASE level = LevelTableBucket ->
            IF action = ActionSelect THEN LevelNamespace ELSE ""
      [] level = LevelNamespace ->
            IF action \in {ActionBack, ActionExit} THEN LevelTableBucket ELSE LevelTable
      [] level = LevelTable ->
            IF action \in {ActionBack, ActionExit} THEN LevelNamespace ELSE ""

\* mutant: Back at the table level goes to the top
NextLevel_BackToTop(level, action) ==
    CASE level = LevelTableBucket ->
            IF action = ActionSelect THEN LevelNamespace ELSE ""
      [] level = LevelNamespace ->
            IF action = ActionExit THEN ""
            ELSE IF action = ActionBack THEN LevelTableBucket ELSE LevelTable
      [] level = LevelTable ->
            IF action = ActionBack THEN LevelTableBucket ELSE ""

\* the level Navigate's switch moves to after the action, or "" when it returns
NextLevel(level, action) ==
    CASE level = LevelTableBucket ->
            IF action = ActionSelect THEN LevelNamespace ELSE ""
      [] level = LevelNamespace ->
            IF action = ActionExit THEN ""
            ELSE IF action = ActionBack THEN LevelTableBucket ELSE LevelTable
      [] level = LevelTable ->
            IF action = ActionBack THEN LevelNamespace ELSE ""

\* The rest of one pass of Navigate's loop, the selector having answered r and
\* the navigate* call having come to out.
Pass(r, out) ==
    /\ faults' = IF out.err # None THEN faults - 1 ELSE faults
    /\ IF out.err # None
       THEN /\ NavigateReturns(out.err)
            /\ state' = out.state
            /\ UNCHANGED nvActs
       ELSE /\ nvActs' = Append(nvActs, [level |-> state.Level, action |-> out.action,
                                          selected |-> r.Selected,
                                          items |-> Names(CacheOf(state, KindAt(state.Level))),
                                          asked |-> r.Asked,
                                          showBack |-> r.ShowBack,
                                          label |-> r.Label,
                                          fetched |-> nvPc = "select"])
            /\ IF NextLevel(state.Level, out.action) = ""
               THEN /\ NavigateReturns(None)
                    /\ state' = out.state
               ELSE /\ state' = [out.state EXCEPT
                                    !.Level = NextLevel(state.Level, out.action)]
                    /\ nvPc' = "navigating"
                    /\ UNCHANGED nvErr

\* the names `s3t list` is given on the command line
SeededBuckets == {NavBucketName(1)}
SeededNamespace == NavNamespaceName(1)

\* what the command line of `s3t list` holds when a session is made: nothing,
\* a bucket, a bucket and a namespace (with a table as well the command shows
\* the table and makes no session)
RunListArgs ==
    {<< >>}
    \cup {<<b>> : b \in SeededBuckets}
    \cup {<<NavBucketName(1), SeededNamespace>>}

\* runList: NewNavigationController; without arguments Navigate is entered at
\* the table bucket level, with one or two GetTableBucketARN is called for the
\* bucket named and ListTableBucketsAll is entered with the name as prefix.
NavigateBegin ==
    /\ nvPc = "new"
    /\ \E a \in RunListArgs :
          IF a = << >>
          THEN /\ state' = [ZeroState EXCEPT !.Level = LevelTableBucket]
               /\ nvPc' = "navigating"
               /\ UNCHANGED nvArgs
               /\ UNCHANGED listerVars
          ELSE /\ nvArgs' = a
               /\ nvPc' = "lookup"
               /\ UNCHANGED state
               /\ \E n \in 0..MaxItems :
                     ListerCalled("TableBuckets", EmptyString, EmptyString, a[1],
                                  NavListing("TableBuckets", EmptyString, EmptyString, n))
    /\ UNCHANGED <<nvErr, nvActs, nvFetches>>
    /\ UNCHANGED <<remoteVars, faults, creatorVars, cmdVars>>

\* runList: GetTableBucketARN returns; on an error runList returns it, else
\* SetInitialState and Navigate at the namespace level, or at the table level
NavigateSeeded ==
    /\ nvPc = "lookup"
    /\ lsPc = "done"
    /\ LET got == GetTableBucketARN(lsRet, nvArgs[1])
       IN IF got.err # None
          THEN /\ NavigateReturns(got.err)
               /\ UNCHANGED state
          ELSE /\ state' = [SetInitialState(ZeroState, nvArgs[1], got.arn,
                                            IF Len(nvArgs) = 2 THEN nvArgs[2]
                                            ELSE EmptyString)
                               EXCEPT !.Level = IF Len(nvArgs) = 2 THEN LevelTable
                                                ELSE LevelNamespace]
               /\ nvPc' = "navigating"
               /\ UNCHANGED nvErr
    /\ nvArgs' = << >>
    /\ ListerReturned
    /\ UNCHANGED <<nvActs, nvFetches>>
    /\ UNCHANGED <<remoteVars, faults, creatorVars, cmdVars>>

\* navigate*: "Fetch ... if not cached": the list of the level is nil and
\* ListXAll is entered for the selected bucket and namespace
NavigateFetch ==
    /\ nvPc = "navigating"
    /\ Len(nvActs) < MaxPrompts
    /\ LET kind == KindAt(state.Level)
           ctx == ContextOf(state, kind)
       IN /\ NeedsFetch(CacheOf(state, kind))
          /\ \E n \in 0..MaxItems :
                ListerCalled(kind, ctx[1], ctx[2], EmptyString,
                             NavListing(kind, ctx[1], ctx[2], n))
    /\ nvPc' = "listing"
    /\ UNCHANGED <<state, nvErr, nvActs, nvFetches, nvArgs>>
    /\ UNCHANGED <<remoteVars, faults, creatorVars, cmdVars>>

\* the aggregation ListXAll returned with got, as logged: what it was asked
\* for, its calls, and the names the remote listed if it went through with
\* the listing unchanged
Logged(got) ==
    [kind |-> lsKind, arn |-> lsArn, ns |-> lsNs, calls |-> Len(lsReqs),
     ok |-> got.err = None, err |-> got.err, changes |-> lsChanged,
     listed |-> IF got.err = None /\ lsChanged = 0
                THEN Some([k \in DOMAIN lsAll |-> NameOf(lsKind, lsAll[k])])
                ELSE None]

\* mutant: a failed fetch is tried again on the next pass
Stored_RetryOnError(st, got) ==
    IF got.err # None
    THEN [state |-> st, pc |-> "navigating", err |-> None]
    ELSE [state |-> CASE st.Level = LevelTableBucket ->
                           [st EXCEPT !.TableBuckets = got.items]
                      [] st.Level = LevelNamespace ->
                           [st EXCEPT !.Namespaces = got.items]
                      [] st.Level = LevelTable ->
                           [st EXCEPT !.Tables = got.items],
          pc |-> "select", err |-> None]

\* navigate*: "if err != nil { return ActionExit, err }", on which Navigate
\* returns the error; else the list is stored
Stored(st, got) ==
    IF got.err # None
    THEN [state |-> st, pc |-> "done", err |-> got.err]
    ELSE [state |-> CASE st.Level = LevelTableBucket ->
                           [st EXCEPT !.TableBuckets = got.items]
                      [] st.Level = LevelNamespace ->
                           [st EXCEPT !.Namespaces = got.items]
                      [] st.Level = LevelTable ->
                           [st EXCEPT !.Tables = got.items],
          pc |-> "select", err |-> None]

\* navigate*: ListXAll returns
NavigateStore ==
    /\ nvPc = "listing"
    /\ lsPc = "done"
    /\ nvFetches' = Append(nvFetches, Logged(lsRet))
    /\ LET after == Stored(state, lsRet)
       IN /\ state' = after.state
          /\ nvPc' = after.pc
          /\ nvErr' = after.err
    /\ ListerReturned
    /\ UNCHANGED <<nvActs, nvArgs>>
    /\ UNCHANGED <<remoteVars, faults, creatorVars, cmdVars>>

\* the selector is to be called, or the list of the level is in the cache
AtSelector(level) ==
    /\ state.Level = level
    /\ Len(nvActs) < MaxPrompts
    /\ \/ nvPc = "select"
       \/ nvPc = "navigating" /\ ~NeedsFetch(CacheOf(state, KindAt(level)))

\* navigateTableBuckets from "if len(c.state.TableBuckets) == 0" on, and
\* Navigate's switch
NavigateAtTableBucket ==
    /\ AtSelector(LevelTableBucket)
    /\ \E r \in Prompt(Label(state.Level), state.TableBuckets, ShowBack(state.Level)) :
          Pass(r, navigateTableBuckets(state, r))
    /\ UNCHANGED <<nvFetches, nvArgs>>
    /\ UNCHANGED <<remoteVars, creatorVars, listerVars, cmdVars>>

\* navigateNamespaces from "if len(c.state.Namespaces) == 0" on, and Navigate's
\* switch
NavigateAtNamespace ==
    /\ AtSelector(LevelNamespace)
    /\ \E r \in Prompt(Label(state.Level), state.Namespaces, ShowBack(state.Level)) :
          Pass(r, navigateNamespaces(state, r))
    /\ UNCHANGED <<nvFetches, nvArgs>>
    /\ UNCHANGED <<remoteVars, creatorVars, listerVars, cmdVars>>

\* navigateTables from "if len(c.state.Tables) == 0" on, and Navigate's switch
NavigateAtTable ==
    /\ AtSelector(LevelTable)
    /\ \E r \in Prompt(Label(state.Level), state.Tables, ShowBack(state.Level)) :
          Pass(r, navigateTables(state, r))
    /\ UNCHANGED <<nvFetches, nvArgs>>
    /\ UNCHANGED <<remoteVars, creatorVars, listerVars, cmdVars>>

\* ---------------------------------------------------------- initial states
InitBucketNameSeqs ==
    {s \in UNION {[1..n -> BucketNames] : n \in 0..MaxInitBuckets} :
        \A j, k \in DOMAIN s : j # k => s[j] # s[k]}

InitRemote ==
    /\ rPageSize \in 1..MaxPageSize
    /\ \E s \in InitBucketNameSeqs :
          rBuckets = [k \in DOMAIN s |-> BucketSummary(s[k])]
    /\ rNamespaces \in SUBSET {<<awsToString(rBuckets[k].Arn), NamespaceName>> :
                                k \in DOMAIN rBuckets}
    /\ rTables \in SUBSET {<<p[1], p[2], TableName>> : p \in rNamespaces}

InitInvocations(n) ==
    /\ pc = [i \in 1..n |-> "idle"]
    /\ result = [i \in 1..n |-> EmptyResult]
    /\ bucketARN = [i \in 1..n |-> EmptyString]
    /\ ret = [i \in 1..n |-> [result |-> None, err |-> None]]
    /\ calls = [i \in 1..n |-> << >>]
    /\ seen = [i \in 1..n |-> [l \in Levels |-> "unchecked"]]
    /\ was = [i \in 1..n |-> [l \in Levels |-> "unchecked"]]
    /\ made = [i \in 1..n |-> {}]
    /\ pre = [i \in 1..n |-> {}]

InitCreator(n) ==
    /\ args \in [tableBucket : BucketNames, namespace : {NamespaceName},
                 table : {TableName}]
    /\ InitInvocations(n)

\* Create is not invoked
InitCreatorIdle ==
    /\ args = [tableBucket |-> <<"a">>, namespace |-> NamespaceName, table |-> TableName]
    /\ InitInvocations(0)

\* no aggregation under way
InitListerIdle ==
    /\ lsKind = "TableBuckets"
    /\ lsAll = << >>
    /\ lsPrefix = EmptyString
    /\ lsArn = EmptyString
    /\ lsNs = EmptyString
    /\ lsChanged = 0
    /\ lsPc = "done"
    /\ lsToken = None
    /\ lsAcc = None
    /\ lsPages = << >>
    /\ lsReqs = << >>
    /\ lsLast = None
    /\ lsRet = [items |-> None, err |-> None]

\* no browse session
InitNavIdle ==
    /\ state = ZeroState
    /\ nvPc = "done"
    /\ nvErr = None
    /\ nvActs = << >>
    /\ nvFetches = << >>
    /\ nvArgs = << >>

\* nothing is printed
InitCmdIdle ==
    /\ prResult = EmptyResult
    /\ prPc = "idle"
    /\ prOut = None
    /\ lkName = EmptyString
    /\ lkCheck = Some([exists |-> FALSE, arn |-> EmptyString, err |-> None])
    /\ lkGet = Some([arn |-> EmptyString, err |-> None])
    /\ lkChanged = 0

\* One client invoking Create MaxCalls times, one call after the other.
InitCreate ==
    /\ InitRemote
    /\ faults = MaxFaults
    /\ rFailures = InjectedErrors
    /\ InitCreator(MaxCalls)
    /\ InitListerIdle
    /\ InitNavIdle
    /\ InitCmdIdle
NextCreate ==
    \/ \E i \in Invocations : BeginSeq(i)
    \/ \E i \in Invocations : EnsureTableBucketCheck(i)
    \/ \E i \in Invocations : EnsureTableBucketCreate(i)
    \/ \E i \in Invocations : EnsureNamespaceCheck(i)
    \/ \E i \in Invocations : EnsureNamespaceCreate(i)
    \/ \E i \in Invocations : EnsureTableCheck(i)
    \/ \E i \in Invocations : EnsureTableCreate(i)
SpecCreate == InitCreate /\ [][NextCreate]_vars

\* NumClients clients, each invoking Create once, interleaved at the remote
\* calls; the only failures are those the remote's state decides.
InitRace ==
    /\ InitRemote
    /\ faults = 0
    /\ rFailures = InjectedErrors
    /\ InitCreator(NumClients)
    /\ InitListerIdle
    /\ InitNavIdle
    /\ InitCmdIdle
NextRace ==
    \/ \E i \in Invocations : Begin(i)
    \/ \E i \in Invocations : EnsureTableBucketCheck(i)
    \/ \E i \in Invocations : EnsureTableBucketCreate(i)
    \/ \E i \in Invocations : EnsureNamespaceCheck(i)
    \/ \E i \in Invocations : EnsureNamespaceCreate(i)
    \/ \E i \in Invocations : EnsureTableCheck(i)
    \/ \E i \in Invocations : EnsureTableCreate(i)
SpecRace == InitRace /\ [][NextRace]_vars

\* The same clients over a remote that lists two table buckets as they begin.
InitRaceListed ==
    /\ rPageSize \in 1..MaxPageSize
    /\ \E a, b \in BucketNames :
          /\ a # b
          /\ rBuckets = <<BucketSummary(a), BucketSummary(b)>>
    /\ rNamespaces \in SUBSET {<<awsToString(rBuckets[k].Arn), NamespaceName>> :
                                k \in DOMAIN rBuckets}
    /\ rTables \in SUBSET {<<p[1], p[2], TableName>> : p \in rNamespaces}
    /\ faults = 0
    /\ rFailures = InjectedErrors
    /\ InitCreator(NumClients)
    /\ InitListerIdle
    /\ InitNavIdle
    /\ InitCmdIdle
SpecRaceListed == InitRaceListed /\ [][NextRace]_vars

\* One aggregation of a listing of up to MaxListItems items, served in pages of
\* rPageSize items; a listing call may fail.
ListingsOf(kind) == UNION {[1..n -> RawItems(kind)] : n \in 0..MaxListItems}

InitListFailing(failures) ==
    /\ rPageSize \in 1..MaxPageSize
    /\ rBuckets = << >>
    /\ rNamespaces = {}
    /\ rTables = {}
    /\ faults = MaxFaults
    /\ rFailures = failures
    /\ InitCreatorIdle
    /\ lsKind \in ListingKinds
    /\ lsAll \in ListingsOf(lsKind)
    /\ lsPrefix \in {EmptyString, <<"a">>}
    /\ lsArn = (IF lsKind = "TableBuckets" THEN EmptyString ELSE ListedBucketARN)
    /\ lsNs = (IF lsKind = "Tables" THEN ListedNamespace ELSE EmptyString)
    /\ lsChanged = 0
    /\ lsPc = "idle"
    /\ lsToken = None
    /\ lsAcc = None
    /\ lsPages = << >>
    /\ lsReqs = << >>
    /\ lsLast = None
    /\ lsRet = [items |-> None, err |-> None]
    /\ InitNavIdle
    /\ InitCmdIdle
InitList == InitListFailing(InjectedErrors)
NextList ==
    \/ ListAllBegin
    \/ ListAllPage
SpecList == InitList /\ [][NextList]_vars

\* One browse session over a remote that serves its listings in pages of
\* rPageSize items; a listing call and the selector may fail.
InitNavFailing(failures) ==
    /\ rPageSize \in {1, MaxPageSize}
    /\ rBuckets = << >>
    /\ rNamespaces = {}
    /\ rTables = {}
    /\ faults = MaxFaults
    /\ rFailures = failures
    /\ InitCreatorIdle
    /\ InitListerIdle
    /\ state = ZeroState
    /\ nvPc = "new"
    /\ nvErr = None
    /\ nvActs = << >>
    /\ nvFetches = << >>
    /\ nvArgs = << >>
    /\ InitCmdIdle
InitNav == InitNavFailing(InjectedErrors)
NextNav ==
    \/ NavigateBegin
    \/ NavigateSeeded
    \/ NavigateFetch
    \/ ListAllPage
    \/ RemoteDeletes
    \/ NavigateStore
    \/ NavigateAtTableBucket
    \/ NavigateAtNamespace
    \/ NavigateAtTable
SpecNav == InitNav /\ [][NextNav]_vars

\* One aggregation against a remote that decides at each call whether the
\* listing goes on; the loop is taken again whenever it can be.
InitDrain ==
    /\ rPageSize = 1
    /\ rBuckets = << >>
    /\ rNamespaces = {}
    /\ rTables = {}
    /\ faults = MaxFaults
    /\ rFailures = InjectedErrors
    /\ InitCreatorIdle
    /\ lsKind \in ListingKinds
    /\ lsAll = << >>
    /\ lsPrefix = EmptyString
    /\ lsArn = (IF lsKind = "TableBuckets" THEN EmptyString ELSE ListedBucketARN)
    /\ lsNs = (IF lsKind = "Tables" THEN ListedNamespace ELSE EmptyString)
    /\ lsChanged = 0
    /\ lsPc = "idle"
    /\ lsToken = None
    /\ lsAcc = None
    /\ lsPages = << >>
    /\ lsReqs = << >>
    /\ lsLast = None
    /\ lsRet = [items |-> None, err |-> None]
    /\ InitNavIdle
    /\ InitCmdIdle
NextDrain ==
    \/ ListAllBegin
    \/ ListAllPageDrain
SpecDrain ==
    InitDrain /\ [][NextDrain]_vars /\ WF_vars(ListAllBegin) /\ WF_vars(ListAllPageDrain)

\* Each of the three entry points on its own: a Create (MaxErrCalls in
\* sequence), or one aggregation, or one browse session, over a remote of
\* which any call can answer with any of the failures, NotFoundException and
\* ConflictException included.
InitErrors ==
    \/ /\ InitRemote
       /\ faults = MaxFaults
       /\ rFailures = RemoteFailures
       /\ InitCreator(MaxErrCalls)
       /\ InitListerIdle
       /\ InitNavIdle
       /\ InitCmdIdle
    \/ InitListFailing(RemoteFailures)
    \/ InitNavFailing(RemoteFailures)
NextErrors ==
    \/ NextCreate
    \/ NextList
    \/ NextNav
SpecErrors == InitErrors /\ [][NextErrors]_vars

\* ---------------------------------------------------- the create command
\* printResult: the number of resources counted as created and as already
\* existing, and the summary lines printed for them
printResult(res) ==
    LET created == (IF res.TableBucketCreated THEN 1 ELSE 0)
                   + (IF res.NamespaceCreated THEN 1 ELSE 0)
                   + (IF res.TableCreated THEN 1 ELSE 0)
        existed == (IF ~res.TableBucketCreated /\ res.TableBucketARN # EmptyString
                    THEN 1 ELSE 0)
                   + (IF ~res.NamespaceCreated THEN 1 ELSE 0)
                   + (IF ~res.TableCreated /\ res.TableARN # EmptyString THEN 1 ELSE 0)
    IN [created |-> created, existed |-> existed,
        lines |-> (IF created > 0 THEN <<<<"Created", created>>>> ELSE << >>)
                  \o (IF existed > 0 THEN <<<<"Already existed", existed>>>> ELSE << >>)]

\* runCreate: printResult(result)
PrintResult ==
    /\ prPc = "new"
    /\ prPc' = "printed"
    /\ prOut' = Some(printResult(prResult))
    /\ UNCHANGED <<prResult, lkName, lkCheck, lkGet, lkChanged>>
    /\ UNCHANGED <<remoteVars, faults, creatorVars, listerVars, navVars>>

\* The results Create can hand over for the requested names: any flags, the
\* messages that go with them, and the ARNs the remote's answers carried (a
\* nil Arn or TableARN pointer of an output gives an empty string).
CreateResults ==
    {[TableBucketARN |-> b, TableARN |-> t,
      Messages |-> <<Message("Table Bucket", args.tableBucket,
                             IF f[1] THEN "created" ELSE "already exists"),
                     Message("Namespace", args.namespace,
                             IF f[2] THEN "created" ELSE "already exists"),
                     Message("Table", args.table,
                             IF f[3] THEN "created" ELSE "already exists")>>,
      TableBucketCreated |-> f[1], NamespaceCreated |-> f[2], TableCreated |-> f[3]] :
        f \in [1..3 -> BOOLEAN],
        b \in {EmptyString, ArnOf(args.tableBucket)},
        t \in {EmptyString,
               TableArnOf(ArnOf(args.tableBucket), args.namespace, args.table)}}

\* printResult applied to a result of Create
InitPrint ==
    /\ rPageSize = 1
    /\ rBuckets = << >>
    /\ rNamespaces = {}
    /\ rTables = {}
    /\ faults = 0
    /\ rFailures = InjectedErrors
    /\ InitCreator(0)
    /\ InitListerIdle
    /\ InitNavIdle
    /\ prResult \in CreateResults
    /\ prPc = "new"
    /\ prOut = None
    /\ lkName = EmptyString
    /\ lkCheck = Some([exists |-> FALSE, arn |-> EmptyString, err |-> None])
    /\ lkGet = Some([arn |-> EmptyString, err |-> None])
    /\ lkChanged = 0
NextPrint ==
    \/ PrintResult
SpecPrint == InitPrint /\ [][NextPrint]_vars

\* ------------------------------------------- looking a bucket up by name
\* the create command's lookup: checkTableBucketExists and its one
\* ListTableBuckets call
LookupByCreator ==
    /\ lkCheck = None
    /\ \E callErr \in CallErrors(None) :
         /\ Spend(None, callErr)
         /\ LET output == RemoteListTableBuckets(rBuckets, rPageSize, Some(lkName), None)
            IN lkCheck' = Some(checkTableBucketExists(callErr, output.TableBuckets,
                                                      lkName))
    /\ UNCHANGED <<prResult, prPc, prOut, lkName, lkGet, lkChanged>>
    /\ UNCHANGED <<remoteVars, creatorVars, listerVars, navVars>>

\* the list command's lookup: GetTableBucketARN is called and enters
\* ListTableBucketsAll with the name as prefix
GetTableBucketARNCalled ==
    /\ lkGet = None
    /\ lsPc = "idle"
    /\ ListerCalled("TableBuckets", EmptyString, EmptyString, lkName, rBuckets)
    /\ UNCHANGED <<remoteVars, faults, creatorVars, navVars, cmdVars>>

\* Between two listing calls of the lookup another client deletes a table
\* bucket.
RemoteDeletesBucket ==
    /\ lkGet = None
    /\ lsPc = "loop"
    /\ lsReqs # << >>
    /\ lsChanged < MaxRemoteChanges
    /\ \E k \in DOMAIN rBuckets :
          /\ rBuckets' = Without(rBuckets, k)
          /\ lsAll' = Without(rBuckets, k)
    /\ lsChanged' = lsChanged + 1
    /\ UNCHANGED <<lsKind, lsPrefix, lsArn, lsNs, lsPc, lsToken, lsAcc, lsPages, lsReqs,
                   lsLast, lsRet>>
    /\ UNCHANGED <<rNamespaces, rTables, rPageSize, rFailures>>
    /\ UNCHANGED <<faults, creatorVars, navVars, cmdVars>>

\* GetTableBucketARN returns, ListTableBucketsAll having returned
LookupByLister ==
    /\ lkGet = None
    /\ lsPc = "done"
    /\ lkGet' = Some(GetTableBucketARN(lsRet, lkName))
    /\ lkChanged' = lsChanged
    /\ ListerReturned
    /\ UNCHANGED <<prResult, prPc, prOut, lkName, lkCheck>>
    /\ UNCHANGED <<remoteVars, faults, creatorVars, navVars>>

\* the listings of up to MaxLookupBuckets table buckets of different names
LookupBucketSeqs ==
    {s \in UNION {[1..n -> BucketNames] : n \in 0..MaxLookupBuckets} :
        \A j, k \in DOMAIN s : j # k => s[j] # s[k]}

\* Both lookups of one name against one remote, in either order.
InitLookup ==
    /\ rPageSize \in 1..MaxPageSize
    /\ \E s \in LookupBucketSeqs :
          rBuckets = [k \in DOMAIN s |-> BucketSummary(s[k])]
    /\ rNamespaces = {}
    /\ rTables = {}
    /\ faults = MaxFaults
    /\ rFailures = InjectedErrors
    /\ InitCreatorIdle
    /\ lsKind = "TableBuckets"
    /\ lsAll = << >>
    /\ lsPrefix = EmptyString
    /\ lsArn = EmptyString
    /\ lsNs = EmptyString
    /\ lsChanged = 0
    /\ lsPc = "idle"
    /\ lsToken = None
    /\ lsAcc = None
    /\ lsPages = << >>
    /\ lsReqs = << >>
    /\ lsLast = None
    /\ lsRet = [items |-> None, err |-> None]
    /\ InitNavIdle
    /\ prResult = EmptyResult
    /\ prPc = "idle"
    /\ prOut = None
    /\ lkName \in BucketNames
    /\ lkCheck = None
    /\ lkGet = None
    /\ lkChanged = 0
NextLookup ==
    \/ LookupByCreator
    \/ GetTableBucketARNCalled
    \/ ListAllPage
    \/ RemoteDeletesBucket
    \/ LookupByLister
SpecLookup == InitLookup /\ [][NextLookup]_vars

\* ------------------------------------------------------------ properties
SixCalls ==
    <<"ListTableBuckets", "CreateTableBucket", "GetNamespace", "CreateNamespace",
      "GetTable", "CreateTable">>

CheckOpOf(l) ==
    CASE l = "bucket" -> "ListTableBuckets"
      [] l = "namespace" -> "GetNamespace"
      [] l = "table" -> "GetTable"

CreateOpOf(l) ==
    CASE l = "bucket" -> "CreateTableBucket"
      [] l = "namespace" -> "CreateNamespace"
      [] l = "table" -> "CreateTable"

CreatedFlag(res, l) ==
    CASE l = "bucket" -> res.TableBucketCreated
      [] l = "namespace" -> res.NamespaceCreated
      [] l = "table" -> res.TableCreated

LevelExists(l) == l \in ExistingLevels

IsPrefix(s, t) == Len(s) <= Len(t) /\ SubSeq(t, 1, Len(s)) = s

\* the operations an invocation called, in order
Ops(i) == [k \in DOMAIN calls[i] |-> calls[i][k].op]
OpsCalled(i) == {calls[i][k].op : k \in DOMAIN calls[i]}

\* a remote call that failed, a lookup's NotFound apart
FailedCall(c) ==
    /\ c.err # None
    /\ ~(c.op \in {"GetNamespace", "GetTable"} /\ c.err[1] = "NotFoundException")

Returned(i) == pc[i] = "done"
Succeeded(i) == Returned(i) /\ ret[i].err = None

\* C1: a second Create in sequence, with no other change at the remote and no
\* failure injected into it, succeeds with all three Created flags false, makes
\* no create call, and returns the bucket and table ARN of the first.
C1_Idempotence ==
    \A i \in Invocations :
        (/\ i + 1 \in Invocations
         /\ Succeeded(i)
         /\ Returned(i + 1)
         /\ \A k \in DOMAIN calls[i + 1] :
               calls[i + 1][k].err = None \/ calls[i + 1][k].err[1] \notin InjectedErrors)
        => /\ ret[i + 1].err = None
           /\ ~ret[i + 1].result[1].TableBucketCreated
           /\ ~ret[i + 1].result[1].NamespaceCreated
           /\ ~ret[i + 1].result[1].TableCreated
           /\ OpsCalled(i + 1) = {"ListTableBuckets", "GetNamespace", "GetTable"}
           /\ ret[i + 1].result[1].TableBucketARN = ret[i].result[1].TableBucketARN
           /\ ret[i + 1].result[1].TableARN = ret[i].result[1].TableARN

\* C2: a successful Create made all three existence checks; at each level the
\* check reported what was the case at the remote, the create call was made
\* exactly when the check reported the level absent, and the level's Created
\* flag is the negation of "exists".
C2_ExistenceGated ==
    \A i \in Invocations :
        Succeeded(i) =>
            \A l \in Levels :
                /\ CheckOpOf(l) \in OpsCalled(i)
                /\ seen[i][l] \in {"exists", "absent"}
                /\ seen[i][l] = was[i][l]
                /\ (CreateOpOf(l) \in OpsCalled(i)) <=> (seen[i][l] = "absent")
                /\ CreatedFlag(ret[i].result[1], l) <=> (was[i][l] = "absent")

\* a successful Create that found the namespace but neither bucket nor table
C2_Witness ==
    \E i \in Invocations :
        /\ Succeeded(i)
        /\ was[i] = [l \in Levels |-> IF l = "namespace" THEN "exists" ELSE "absent"]

CheckOps == {"ListTableBuckets", "GetNamespace", "GetTable"}
CreateOps == {"CreateTableBucket", "CreateNamespace", "CreateTable"}

Last(s) == s[Len(s)]

\* C3: when no level exists as Create begins, its calls are a prefix of the six
\* calls in order; a failing create call is the last call made and Create has
\* returned an error; without a failure exactly the six calls are made.
C3_OrderAndShortCircuit ==
    \A i \in Invocations :
        (pc[i] # "idle" /\ pre[i] = {}) =>
            /\ IsPrefix(Ops(i), SixCalls)
            /\ \A k \in DOMAIN calls[i] :
                  (calls[i][k].op \in CreateOps /\ FailedCall(calls[i][k])) =>
                      /\ k = Len(calls[i])
                      /\ Returned(i)
                      /\ ret[i].err # None
            /\ Succeeded(i) => (Ops(i) = SixCalls /\ made[i] = Levels)
            /\ (Returned(i) /\ ret[i].err # None) => FailedCall(Last(calls[i]))

\* Create returned an error after CreateNamespace failed, with nothing pre-existing
C3_Witness ==
    \E i \in Invocations :
        /\ Returned(i)
        /\ pre[i] = {}
        /\ ret[i].err # None
        /\ ret[i].err[1].Operation = "CreateNamespace"
        /\ Ops(i) = SubSeq(SixCalls, 1, 4)

\* the calls of a level's create and of every deeper level
AtOrBelow(checkOp) ==
    CASE checkOp = "ListTableBuckets" ->
            {"CreateTableBucket", "GetNamespace", "CreateNamespace", "GetTable",
             "CreateTable"}
      [] checkOp = "GetNamespace" -> {"CreateNamespace", "GetTable", "CreateTable"}
      [] checkOp = "GetTable" -> {"CreateTable"}

\* C8: an existence check failing with anything but a lookup's NotFound is the
\* last call Create makes: Create has returned nil and that error, wrapped, and
\* made neither that level's create call nor any call of a deeper level.
C8_CheckFailureAborts ==
    \A i \in Invocations :
        \A k \in DOMAIN calls[i] :
            (calls[i][k].op \in CheckOps /\ FailedCall(calls[i][k])) =>
                /\ k = Len(calls[i])
                /\ Returned(i)
                /\ ret[i] = [result |-> None,
                             err |-> Some(WrapError(calls[i][k].op, calls[i][k].err[1]))]
                /\ OpsCalled(i) \cap AtOrBelow(calls[i][k].op) = {}

\* GetTable failed with an injected error after bucket and namespace were handled
C8_Witness ==
    \E i \in Invocations :
        /\ Returned(i)
        /\ calls[i] # << >>
        /\ Last(calls[i]).op = "GetTable"
        /\ FailedCall(Last(calls[i]))

\* C9: Create returns either a result or an error, never both and never
\* neither; a result only when no call failed and all three levels were
\* handled; after any failed call, nil and the error, whatever was created.
C9_AllOrNothing ==
    \A i \in Invocations :
        /\ Returned(i) => ((ret[i].result = None) <=> (ret[i].err # None))
        /\ (Returned(i) /\ ret[i].result # None) =>
              /\ \A k \in DOMAIN calls[i] : ~FailedCall(calls[i][k])
              /\ \A l \in Levels : seen[i][l] # "unchecked"
              /\ ret[i].result[1].TableBucketARN # EmptyString
              /\ ret[i].result[1].TableARN # EmptyString
              /\ Len(ret[i].result[1].Messages) = 3
        /\ (\E k \in DOMAIN calls[i] : FailedCall(calls[i][k])) =>
              (Returned(i) /\ ret[i].result = None /\ ret[i].err # None)

\* Create returned an error after it had created the bucket
C9_Witness ==
    \E i \in Invocations :
        /\ Returned(i)
        /\ ret[i].err # None
        /\ ret[i].result = None
        /\ "bucket" \in made[i]

\* whether the level an invocation works on exists at the remote
ExistsFor(i, l) ==
    CASE l = "bucket" -> BucketExists(rBuckets, args.tableBucket)
      [] l = "namespace" -> NamespaceExists(bucketARN[i], args.namespace)
      [] l = "table" -> TableExists(bucketARN[i], args.namespace, args.table)

\* C10: Create calls nothing but the six check and create operations, and what
\* an invocation created exists at the remote from then on, in particular when
\* Create returns an error.
C10_NoRollback ==
    \A i \in Invocations :
        /\ OpsCalled(i) \subseteq (CheckOps \cup CreateOps)
        /\ \A l \in made[i] : ExistsFor(i, l)

\* Create returned the error of the namespace step after creating the bucket,
\* and the bucket exists
C10_Witness ==
    \E i \in Invocations :
        /\ Returned(i)
        /\ ret[i].err # None
        /\ ret[i].err[1].Operation \in {"GetNamespace", "CreateNamespace"}
        /\ made[i] = {"bucket"}
        /\ BucketExists(rBuckets, args.tableBucket)

RECURSIVE Concat(_)
\* the concatenation of a sequence of sequences
Concat(ss) == IF ss = << >> THEN << >> ELSE Head(ss) \o Concat(Tail(ss))

\* what the aggregation of a listing must return, item for item
Expected(kind, listing) == [k \in DOMAIN listing |-> InfoOf(kind, listing[k])]

ListReturned == lsPc = "done" /\ lsRet.err = None

\* C7: an aggregation that returns without error returns one item per item of
\* the listing the remote answers the request with (all N items it holds, with
\* a prefix given or not), each the conversion of the remote's item at the same
\* position, and the pages it received, joined in the order received, are the
\* listing; until then what it has collected is the conversion of the pages
\* received so far.
C7_PaginationComplete ==
    /\ ListReturned =>
          /\ Concat(lsPages) = lsAll
          /\ Elems(lsRet.items) = Expected(lsKind, lsAll)
          /\ Len(Elems(lsRet.items)) = Len(lsAll)
    /\ lsPc = "loop" => Elems(lsAcc) = Expected(lsKind, Concat(lsPages))

\* three items in pages of two were aggregated without a prefix
C7_Witness ==
    /\ ListReturned
    /\ lsPrefix = EmptyString
    /\ Len(lsAll) = 3
    /\ rPageSize = 2
    /\ Len(lsPages) = 2
    /\ Len(Elems(lsRet.items)) = 3

RECURSIVE SumCalls(_)
SumCalls(fetches) ==
    IF fetches = << >> THEN 0 ELSE Head(fetches).calls + SumCalls(Tail(fetches))

\* the listing calls made at the remote in the session
ListCalls == SumCalls(nvFetches)

\* the number of pages a listing of n items is served in
PagesOf(n) == IF n = 0 THEN 1 ELSE (n + rPageSize - 1) \div rPageSize

\* the session went Bucket -> Namespace -> Table by Select, Select, then Back,
\* Back, and left at the Bucket level
ForwardAndBack ==
    /\ nvPc = "done"
    /\ nvErr = None
    /\ Len(nvActs) = 5
    /\ [k \in 1..4 |-> <<nvActs[k].level, nvActs[k].action>>] =
          << <<LevelTableBucket, ActionSelect>>, <<LevelNamespace, ActionSelect>>,
             <<LevelTable, ActionBack>>, <<LevelNamespace, ActionBack>> >>
    /\ nvActs[5].level = LevelTableBucket
    /\ nvActs[5].action \in {ActionBack, ActionExit}

\* C4 as stated: such a session makes exactly 3 listing calls at the remote.
C4_ExactlyThreeCalls == ForwardAndBack => ListCalls = 3

\* no listing of the session changed at the remote while it was aggregated
ListingsUnchanged == \A k \in DOMAIN nvFetches : nvFetches[k].changes = 0

\* C4, amended: such a session aggregates each level's listing exactly once, on
\* the first visit, buckets then namespaces then tables, with one listing call
\* or more for each; when no listing changes at the remote while it is
\* aggregated, the listing calls are the pages of these three listings, 3 when
\* each listing fits one page.
C4_OneAggregationPerLevel ==
    ForwardAndBack =>
        /\ [k \in DOMAIN nvFetches |-> nvFetches[k].kind] =
              <<"TableBuckets", "Namespaces", "Tables">>
        /\ \A k \in DOMAIN nvFetches : nvFetches[k].calls >= 1
        /\ ListingsUnchanged =>
              /\ ListCalls = PagesOf(Len(Elems(state.TableBuckets)))
                             + PagesOf(Len(Elems(state.Namespaces)))
                             + PagesOf(Len(Elems(state.Tables)))
              /\ (\A c \in {state.TableBuckets, state.Namespaces, state.Tables} :
                     Len(Elems(c)) <= rPageSize) => ListCalls = 3

\* such a session over a bucket listing of two pages that did not change
C4_Witness ==
    /\ ForwardAndBack
    /\ ListingsUnchanged
    /\ nvFetches[1].calls = 2
    /\ ListCalls = 4

\* C5: no two aggregations of a session fetch the same level's listing for the
\* same parent (none, the bucket, the bucket and namespace).
C5_OncePerParent ==
    \A j, k \in DOMAIN nvFetches :
        (/\ j < k
         /\ nvFetches[j].ok
         /\ nvFetches[k].ok
         /\ nvFetches[j].kind = nvFetches[k].kind)
        => <<nvFetches[j].arn, nvFetches[j].ns>> # <<nvFetches[k].arn, nvFetches[k].ns>>

\* the aggregations of a kind that returned a listing
FetchesOf(kind) == SelectSeq(nvFetches, LAMBDA f : f.kind = kind /\ f.ok)

\* C6: a populated namespace cache was fetched, by the latest aggregation of
\* namespaces, for the selected bucket ARN; a populated table cache was fetched,
\* by the latest aggregation of tables, for the selected bucket ARN and
\* namespace, and holds tables of that namespace of that bucket only.
C6_CacheValidity ==
    /\ state.Namespaces # None =>
          /\ FetchesOf("Namespaces") # << >>
          /\ Last(FetchesOf("Namespaces")).arn = state.SelectedBucketARN
    /\ state.Tables # None =>
          /\ FetchesOf("Tables") # << >>
          /\ Last(FetchesOf("Tables")).arn = state.SelectedBucketARN
          /\ Last(FetchesOf("Tables")).ns = state.SelectedNamespace
          /\ \A k \in DOMAIN Elems(state.Tables) :
                LET tbl == Elems(state.Tables)[k]
                IN /\ tbl.Namespace = state.SelectedNamespace
                   /\ tbl.ARN = TableArnOf(state.SelectedBucketARN,
                                           state.SelectedNamespace, tbl.Name)

\* both caches are populated after the namespaces of another bucket had been
\* fetched earlier in the session
C6_Witness ==
    /\ state.Namespaces # None
    /\ state.Tables # None
    /\ \E k \in DOMAIN nvFetches :
          /\ nvFetches[k].kind = "Namespaces"
          /\ nvFetches[k].ok
          /\ nvFetches[k].arn # state.SelectedBucketARN

\* C11: a Create invoked after a failed Create, with no failure injected into
\* it, succeeds, reports a level created exactly when the level did not exist
\* as it began, and creates no level the failed invocation had created.
C11_Recovery ==
    \A i \in Invocations :
        (/\ i + 1 \in Invocations
         /\ Returned(i)
         /\ ret[i].err # None
         /\ Returned(i + 1)
         /\ \A k \in DOMAIN calls[i + 1] :
               calls[i + 1][k].err = None \/ calls[i + 1][k].err[1] \notin InjectedErrors)
        => /\ ret[i + 1].err = None
           /\ \A l \in Levels :
                 CreatedFlag(ret[i + 1].result[1], l) <=> (l \notin pre[i + 1])
           /\ made[i + 1] \cap made[i] = {}

\* the navigate* calls made at a level before the k-th
VisitsBefore(k, level) == {j \in 1..(k - 1) : nvActs[j].level = level}

\* the k-th navigate* call was entered by a Back into a level visited before
BackInto(k) ==
    /\ k \in DOMAIN nvActs
    /\ k > 1
    /\ nvActs[k - 1].action = ActionBack
    /\ VisitsBefore(k, nvActs[k].level) # {}

\* C12: a navigate* call entered by a Back into a level visited before in the
\* session fetches nothing, and has the items of the latest earlier visit of
\* that level, in the same order, to present.
C12_BackReusesCache ==
    \A k \in DOMAIN nvActs :
        BackInto(k) =>
            LET j == CHOOSE v \in VisitsBefore(k, nvActs[k].level) :
                        \A w \in VisitsBefore(k, nvActs[k].level) : w <= v
            IN /\ ~nvActs[k].fetched
               /\ nvActs[k].items = nvActs[j].items

\* the bucket list is presented again after a Back from the namespaces of a
\* second bucket
C12_Witness ==
    \E k \in DOMAIN nvActs :
        /\ BackInto(k)
        /\ nvActs[k].level = LevelTableBucket
        /\ Len(nvActs[k].items) = 2
        /\ Cardinality(VisitsBefore(k, LevelTableBucket)) = 2

LevelRank(level) ==
    CASE level = LevelTableBucket -> 0
      [] level = LevelNamespace -> 1
      [] level = LevelTable -> 2

\* the level after an action at a level, as the claim has it; a Select at the
\* table level, an Exit, and a Back at the bucket level leave the level alone
LevelAfter(level, action) ==
    IF action = ActionSelect /\ level = LevelTableBucket THEN LevelNamespace
    ELSE IF action = ActionSelect /\ level = LevelNamespace THEN LevelTable
    ELSE IF action = ActionBack /\ level = LevelTable THEN LevelNamespace
    ELSE IF action = ActionBack /\ level = LevelNamespace THEN LevelTableBucket
    ELSE level

ActionsOf(acts) == [k \in DOMAIN acts |-> acts[k].action]
LevelsOf(acts) == [k \in DOMAIN acts |-> acts[k].level]

\* C13: the level is one of the three; after each action the level is the one
\* the transition table gives, at most one step away, and it is the level of
\* the next prompt; the path Select, Select, Back, Back, Back prompts at
\* Bucket, Namespace, Table, Namespace, Bucket.
C13_Transitions ==
    /\ state.Level \in {LevelTableBucket, LevelNamespace, LevelTable}
    /\ \A k \in DOMAIN nvActs :
          LET after == IF k < Len(nvActs) THEN nvActs[k + 1].level ELSE state.Level
              d == LevelRank(after) - LevelRank(nvActs[k].level)
          IN /\ after = LevelAfter(nvActs[k].level, nvActs[k].action)
             /\ d \in {-1, 0, 1}
    /\ (/\ nvActs # << >>
        /\ nvActs[1].level = LevelTableBucket
        /\ ActionsOf(nvActs) = <<ActionSelect, ActionSelect, ActionBack, ActionBack,
                                 ActionBack>>)
       => LevelsOf(nvActs) = <<LevelTableBucket, LevelNamespace, LevelTable,
                               LevelNamespace, LevelTableBucket>>

\* the path Select, Select, Back, Back, Back was taken from the bucket level,
\* each action the selector's
C13_Witness ==
    /\ nvPc = "done"
    /\ Len(nvActs) = 5
    /\ nvActs[1].level = LevelTableBucket
    /\ ActionsOf(nvActs) = <<ActionSelect, ActionSelect, ActionBack, ActionBack,
                             ActionBack>>
    /\ \A k \in DOMAIN nvActs : nvActs[k].items # << >>

SelectionFailed == Some(PlainError("selection failed"))

\* Navigate has returned an error: nothing of the session changes any more
AfterError ==
    nvErr # None =>
        /\ nvPc' = "done"
        /\ nvErr' = nvErr
        /\ nvActs' = nvActs
        /\ nvFetches' = nvFetches
        /\ state' = state

\* an aggregation of the session has returned an error to navigate*
FetchFailed == nvPc = "listing" /\ lsPc = "done" /\ lsRet.err # None

\* a listing call that fails is the last call of its aggregation, which
\* returns an error; navigate* and Navigate return that error in the next step
\* with no prompt and the state as it was; a selector that fails ends the
\* session with its error
FailingStep ==
    /\ (faults' < faults /\ lsPc = "loop") =>
          /\ lsPc' = "done"
          /\ lsRet'.err # None
          /\ Last(lsReqs').err # None
          /\ UNCHANGED <<state, nvPc, nvErr, nvActs, nvFetches>>
    /\ FetchFailed =>
          /\ nvPc' = "done"
          /\ nvErr' = lsRet.err
          /\ nvActs' = nvActs
          /\ state' = state
          /\ nvFetches' = Append(nvFetches, Last(nvFetches'))
          /\ ~Last(nvFetches').ok
          /\ Last(nvFetches').calls = Len(lsReqs)
    /\ (faults' < faults /\ lsPc # "loop") =>
          /\ nvPc' = "done"
          /\ nvErr' = SelectionFailed
          /\ nvActs' = nvActs
          /\ nvFetches' = nvFetches

\* C14: a listing call that fails is the last remote call of the session; the
\* failed aggregation is the last one, Navigate has returned its error, wrapped
\* under the listing operation, and the cache of that level is still nil; a
\* failed selection likewise ends the session; the failing pass prompts no
\* more, and after the error nothing changes and no remote call is made.
C14_ErrorAborts ==
    /\ [](/\ \A k \in DOMAIN nvFetches :
                ~nvFetches[k].ok =>
                    /\ k = Len(nvFetches)
                    /\ nvPc = "done"
                    /\ nvErr = nvFetches[k].err
                    /\ nvErr[1].Operation = ListOpOf(nvFetches[k].kind)
                    /\ CacheOf(state, nvFetches[k].kind) = None
          /\ FetchFailed =>
                /\ \A k \in DOMAIN lsReqs : lsReqs[k].err # None <=> k = Len(lsReqs)
                /\ CacheOf(state, lsKind) = None
          /\ nvErr # None => nvPc = "done"
          /\ nvPc = "done" => lsPc # "loop")
    /\ [][AfterError /\ FailingStep]_vars

\* the second page of the table listing failed after two levels were selected
C14_Witness ==
    /\ nvErr # None
    /\ Len(nvActs) = 2
    /\ nvFetches # << >>
    /\ Last(nvFetches).kind = "Tables"
    /\ ~Last(nvFetches).ok
    /\ Last(nvFetches).calls = 2


\* the k-th navigate* call found the list of its level empty
EmptyAt(k, level) == nvActs[k].level = level /\ nvActs[k].items = << >>

\* C15: a navigateTableBuckets call that finds the bucket listing empty is the
\* last of the session: it returns Exit without asking the selector, and
\* Navigate returns nil with the session still at the table bucket level.
C15_EmptyBucketsExit ==
    \A k \in DOMAIN nvActs :
        EmptyAt(k, LevelTableBucket) =>
            /\ ~nvActs[k].asked
            /\ nvActs[k].action = ActionExit
            /\ k = Len(nvActs)
            /\ nvPc = "done"
            /\ nvErr = None
            /\ state.Level = LevelTableBucket
            /\ state.TableBuckets = None

\* a session started at the top found no bucket, after one listing call
C15_Witness ==
    /\ Len(nvActs) = 1
    /\ EmptyAt(1, LevelTableBucket)
    /\ Len(nvFetches) = 1
    /\ nvFetches[1].kind = "TableBuckets"
    /\ nvFetches[1].ok
    /\ nvPc = "done"


\* the level above
ParentOf(level) == IF level = LevelTable THEN LevelNamespace ELSE LevelTableBucket

\* a pass of the loop that finds the list of a lower level empty: the session
\* goes on at the parent level, nothing else of the state changed
EmptyChildStep ==
    (/\ Len(nvActs') = Len(nvActs) + 1
     /\ state.Level \in {LevelNamespace, LevelTable}
     /\ Last(nvActs').items = << >>)
    => /\ ~Last(nvActs').asked
       /\ Last(nvActs').action = ActionBack
       /\ nvPc' = "navigating"
       /\ nvErr' = None
       /\ state' = [state EXCEPT !.Level = ParentOf(state.Level)]

\* C16: a navigateNamespaces / navigateTables call that finds its list empty
\* asks nothing and returns Back: the session goes on at the parent level with
\* no error and with every cache and selection as it was; where the parent
\* level was presented before, the next call presents the items of its latest
\* visit without an aggregation.
C16_EmptyChildBack ==
    /\ [][EmptyChildStep]_vars
    /\ [](\A k \in DOMAIN nvActs :
            (EmptyAt(k, LevelNamespace) \/ EmptyAt(k, LevelTable)) =>
                /\ ~nvActs[k].asked
                /\ nvActs[k].action = ActionBack
                /\ k = Len(nvActs) =>
                      /\ state.Level = ParentOf(nvActs[k].level)
                      /\ VisitsBefore(k, state.Level) # {} =>
                            CacheOf(state, KindAt(state.Level)) # None
                /\ k < Len(nvActs) =>
                      /\ nvActs[k + 1].level = ParentOf(nvActs[k].level)
                      /\ VisitsBefore(k, nvActs[k + 1].level) # {} =>
                            LET j == CHOOSE v \in VisitsBefore(k, nvActs[k + 1].level) :
                                        \A w \in VisitsBefore(k, nvActs[k + 1].level) :
                                            w <= v
                            IN /\ ~nvActs[k + 1].fetched
                               /\ nvActs[k + 1].asked
                               /\ nvActs[k + 1].items = nvActs[j].items)

\* both cases: a bucket whose namespace list is empty, the bucket list
\* presented again from the cache, and further down an empty table list under
\* a selected namespace
C16_Witness ==
    \E k, m \in DOMAIN nvActs :
        /\ EmptyAt(k, LevelNamespace)
        /\ VisitsBefore(k, LevelTableBucket) # {}
        /\ k < m
        /\ ~nvActs[k + 1].fetched
        /\ Len(nvActs[k + 1].items) = 2
        /\ EmptyAt(m, LevelTable)
        /\ VisitsBefore(m, LevelNamespace) # {}
        /\ state.Level = LevelNamespace
        /\ state.Namespaces # None


Range(s) == {s[i] : i \in DOMAIN s}

\* Navigate has returned: nothing of the session changes any more
AfterReturn ==
    nvPc = "done" => UNCHANGED <<state, nvPc, nvErr, nvActs, nvFetches>>

\* the k-th navigate* call returned Select at the table level
TableSelected(k) ==
    nvActs[k].level = LevelTable /\ nvActs[k].action = ActionSelect

\* the pass in which a table is selected
TableSelectStep ==
    (Len(nvActs') = Len(nvActs) + 1 /\ state.Level = LevelTable
     /\ Last(nvActs').action = ActionSelect)
    => /\ nvPc' = "done"
       /\ nvErr' = None
       /\ state'.Level = LevelTable
       /\ state'.SelectedBucket = state.SelectedBucket
       /\ state'.SelectedBucketARN = state.SelectedBucketARN
       /\ state'.SelectedNamespace = state.SelectedNamespace
       /\ state'.TableBuckets = state.TableBuckets
       /\ state'.Namespaces = state.Namespaces

\* C17: a Select at the table level is the last navigate* call of the session:
\* Navigate returns nil in that pass with the level still Table, and after it
\* there is no prompt, no aggregation and no change of the state.
C17_TableSelectTerminal ==
    /\ [][TableSelectStep /\ AfterReturn]_vars
    /\ [](\A k \in DOMAIN nvActs :
            TableSelected(k) =>
                /\ k = Len(nvActs)
                /\ nvPc = "done"
                /\ nvErr = None
                /\ state.Level = LevelTable
                /\ nvActs[k].selected \in Range(nvActs[k].items))

\* a table was selected after the way down from the top and one Back
C17_Witness ==
    /\ Len(nvActs) = 5
    /\ TableSelected(5)
    /\ nvActs[1].level = LevelTableBucket
    /\ nvActs[3].action = ActionBack
    /\ nvPc = "done"


\* the k-th navigate* call returned an action that ends the session
Leaves(k) ==
    \/ nvActs[k].action = ActionExit
    \/ nvActs[k].level = LevelTableBucket /\ nvActs[k].action = ActionBack

\* the pass in which the session is left
LeaveStep ==
    (/\ Len(nvActs') = Len(nvActs) + 1
     /\ \/ Last(nvActs').action = ActionExit
        \/ state.Level = LevelTableBucket /\ Last(nvActs').action = ActionBack)
    => /\ nvPc' = "done"
       /\ nvErr' = None
       /\ state'.Level = state.Level

\* C18: an Exit at any level, and a Back at the table bucket level, is the last
\* navigate* call of the session: Navigate returns nil in that pass, and after
\* it there is no prompt and no aggregation.
C18_ExitTerminates ==
    /\ [][LeaveStep /\ (nvPc = "done" => nvActs' = nvActs /\ nvFetches' = nvFetches)]_vars
    /\ [](\A k \in DOMAIN nvActs :
            Leaves(k) =>
                /\ k = Len(nvActs)
                /\ nvPc = "done"
                /\ nvErr = None
                /\ state.Level = nvActs[k].level)

\* the selector returned Exit at the table level, two selections down
C18_Witness ==
    /\ nvPc = "done"
    /\ Len(nvActs) = 3
    /\ nvActs[3].asked
    /\ nvActs[3].level = LevelTable
    /\ nvActs[3].action = ActionExit
    /\ Len(nvFetches) = 3


\* the level a lookup belongs to
LookupLevel(op) == IF op = "GetNamespace" THEN "namespace" ELSE "table"

\* the program counter of the create step of a level
CreatePcOf(l) == IF l = "namespace" THEN "createNamespace" ELSE "createTable"

\* C19: in every Create, a GetNamespace / GetTable that fails with NotFound
\* makes the check report "absent" and no error, and the next call of the
\* invocation is the create call of that level; a lookup that fails with any
\* other kind is the last call of the invocation, Create returns that error
\* wrapped under the lookup's operation with a nil result, and the level's
\* create call is not made.
C19_NotFoundTranslation ==
    \A i \in Invocations :
        \A k \in DOMAIN calls[i] :
            LET c == calls[i][k]
                l == LookupLevel(c.op)
            IN (c.op \in {"GetNamespace", "GetTable"} /\ c.err # None) =>
                  IF c.err[1] = "NotFoundException"
                  THEN /\ seen[i][l] = "absent"
                       /\ IF k = Len(calls[i])
                          THEN pc[i] = CreatePcOf(l) /\ ret[i].err = None
                          ELSE calls[i][k + 1].op = CreateOpOf(l)
                  ELSE /\ k = Len(calls[i])
                       /\ Returned(i)
                       /\ ret[i].err = Some(WrapError(c.op, c.err[1]))
                       /\ ret[i].result = None
                       /\ CreateOpOf(l) \notin OpsCalled(i)
                       /\ l \notin made[i]
                       /\ seen[i][l] \notin {"exists", "absent"}

\* a Create whose GetNamespace said NotFound, which created the namespace and
\* then failed on a GetTable error of another kind
C19_Witness ==
    \E i \in Invocations :
        /\ Returned(i)
        /\ \E k \in DOMAIN calls[i] :
              /\ calls[i][k].op = "GetNamespace"
              /\ calls[i][k].err = Some("NotFoundException")
        /\ "namespace" \in made[i]
        /\ Last(calls[i]).op = "GetTable"
        /\ Last(calls[i]).err # None
        /\ Last(calls[i]).err[1] \in InjectedErrors


\* the invocation's ListTableBuckets call returned a listing
BucketChecked(i) == seen[i]["bucket"] \in {"exists", "absent"}

\* a table bucket whose name starts with the requested name and is longer
PrefixOnly(name) == HasPrefix(name, args.tableBucket) /\ name # args.tableBucket

\* C20: checkTableBucketExists reports "exists" only when a bucket of exactly
\* the requested name is at the remote, and then with that bucket's ARN; when
\* no bucket has exactly that name it reports "absent" with an empty ARN,
\* whatever longer names the listing holds, and the next call of Create is
\* CreateTableBucket.
C20_ExactName ==
    \A i \in Invocations :
        BucketChecked(i) =>
            /\ seen[i]["bucket"] = "exists" =>
                  /\ was[i]["bucket"] = "exists"
                  /\ BucketExists(rBuckets, args.tableBucket)
                  /\ bucketARN[i] = ArnOf(args.tableBucket)
                  /\ "CreateTableBucket" \notin OpsCalled(i)
            /\ was[i]["bucket"] = "absent" => seen[i]["bucket"] = "absent"
            /\ seen[i]["bucket"] = "absent" =>
                  IF Len(calls[i]) = 1
                  THEN /\ pc[i] = "createTableBucket"
                       /\ bucketARN[i] = EmptyString
                       /\ result[i].TableBucketARN = EmptyString
                  ELSE calls[i][2].op = "CreateTableBucket"

\* 'a' was requested, the remote held 'ab' only: the check said absent and
\* CreateTableBucket made 'a'
C20_Witness ==
    /\ args.tableBucket = <<"a">>
    /\ \E k \in DOMAIN rBuckets : PrefixOnly(awsToString(rBuckets[k].Name))
    /\ was[1]["bucket"] = "absent"
    /\ seen[1]["bucket"] = "absent"
    /\ "bucket" \in made[1]


\* the error kind of a remote failure
KindOf(failure) ==
    CASE failure = "ConflictException" -> "ErrorTypeConflict"
      [] failure = "ForbiddenException" -> "ErrorTypeForbidden"
      [] failure = "BadRequestException" -> "ErrorTypeBadRequest"
      [] failure = "InternalServerErrorException" -> "ErrorTypeInternalServer"
      [] failure = "CredentialError" -> "ErrorTypeCredentials"
      [] failure = "NotFoundException" -> "ErrorTypeNotFound"
      [] failure = "OtherError" -> "ErrorTypeUnknown"

\* err is the failure of the remote call op, surfaced with its kind
Surfaces(err, op, failure) ==
    /\ err # None
    /\ err[1].Operation = op
    /\ err[1].Type = KindOf(failure)
    /\ err[1].OriginalErr = failure

\* how often an invocation of Create called op
TimesCalled(i, op) == Cardinality({k \in DOMAIN calls[i] : calls[i][k].op = op})

\* C21: a remote call that fails, a lookup's NotFound apart, is the last remote
\* call that Create, the aggregation or Navigate makes, it is made once, and
\* the error returned names its operation and carries its kind, whichever of
\* the seven kinds the call answered and whatever the remote held (a create
\* call that answers Conflict or NotFound, a listing call that answers
\* NotFound or Conflict); wrapping keeps the kind of every failure a call
\* answered, a lookup's NotFound included.
C21_KindPropagates ==
    /\ \A i \in Invocations :
          \A k \in DOMAIN calls[i] :
              calls[i][k].err # None =>
                  /\ calls[i][k].err[1] \in RemoteFailures
                  /\ Surfaces(Some(WrapError(calls[i][k].op, calls[i][k].err[1])),
                              calls[i][k].op, calls[i][k].err[1])
    /\ \A i \in Invocations :
          \A k \in DOMAIN calls[i] :
              FailedCall(calls[i][k]) =>
                  /\ k = Len(calls[i])
                  /\ Returned(i)
                  /\ Surfaces(ret[i].err, calls[i][k].op, calls[i][k].err[1])
                  /\ TimesCalled(i, calls[i][k].op) = 1
    /\ \A k \in DOMAIN lsReqs :
          lsReqs[k].err # None =>
              /\ lsReqs[k].err[1] \in RemoteFailures
              /\ k = Len(lsReqs)
              /\ lsPc = "done"
              /\ Surfaces(lsRet.err, ListOpOf(lsKind), lsReqs[k].err[1])
    /\ \A k \in DOMAIN nvFetches :
          ~nvFetches[k].ok =>
              /\ k = Len(nvFetches)
              /\ nvPc = "done"
              /\ nvErr = nvFetches[k].err
              /\ nvErr[1].OriginalErr \in RemoteFailures
              /\ Surfaces(nvErr, ListOpOf(nvFetches[k].kind), nvErr[1].OriginalErr)

\* a Create that made the bucket, was answered NotFound by GetNamespace and
\* ConflictException by CreateNamespace (another client made the namespace in
\* between), and returned the Conflict of its one CreateNamespace call
C21_Witness ==
    \E i \in Invocations :
        /\ Returned(i)
        /\ made[i] = {"bucket"}
        /\ Len(calls[i]) = 4
        /\ calls[i][3].op = "GetNamespace"
        /\ calls[i][3].err = Some("NotFoundException")
        /\ calls[i][4].op = "CreateNamespace"
        /\ calls[i][4].err = Some("ConflictException")
        /\ ret[i].result = None
        /\ ret[i].err # None
        /\ ret[i].err[1].Operation = "CreateNamespace"
        /\ ret[i].err[1].Type = "ErrorTypeConflict"

\* a Create whose CreateTable was answered NotFoundException (the namespace
\* was deleted in between) and which returned it as NotFound
NotFoundSurfacedByCreate ==
    \E i \in Invocations :
        /\ Returned(i)
        /\ Last(calls[i]).op = "CreateTable"
        /\ Last(calls[i]).err = Some("NotFoundException")
        /\ ret[i].err # None
        /\ ret[i].err[1].Type = "ErrorTypeNotFound"

\* an aggregation whose second listing call was answered NotFoundException
\* and which returned it as NotFound
NotFoundSurfacedByListing ==
    /\ lsPc = "done"
    /\ Len(lsReqs) = 2
    /\ lsReqs[2].err = Some("NotFoundException")
    /\ lsRet.err # None
    /\ lsRet.err[1].Type = "ErrorTypeNotFound"

\* a session that ended with the NotFound, and one that ended with the
\* Conflict, that a ListNamespaces call was answered
KindSurfacedByNavigate(failure) ==
    /\ nvPc = "done"
    /\ nvFetches # << >>
    /\ Last(nvFetches).kind = "Namespaces"
    /\ ~Last(nvFetches).ok
    /\ nvErr # None
    /\ nvErr[1].OriginalErr = failure
    /\ nvErr[1].Type = KindOf(failure)
NotFoundSurfacedByNavigate == KindSurfacedByNavigate("NotFoundException")
ConflictSurfacedByNavigate == KindSurfacedByNavigate("ConflictException")


\* C22: a listing call of an aggregation that fails, the first or a later one,
\* is its last call: the aggregation has returned the error and nil for the
\* items, whatever the pages before it held; an aggregation never returns both
\* items and an error.
C22_FailureDiscardsPages ==
    /\ \A k \in DOMAIN lsReqs :
          lsReqs[k].err # None =>
              /\ k = Len(lsReqs)
              /\ Len(lsPages) = k - 1
              /\ lsPc = "done"
              /\ lsRet.err = Some(WrapError(ListOpOf(lsKind), lsReqs[k].err[1]))
              /\ lsRet.items = None
    /\ lsRet.err # None => lsRet.items = None /\ lsReqs[Len(lsReqs)].err # None

\* the third call failed after two pages with items
C22_Witness ==
    /\ Len(lsReqs) = 3
    /\ lsReqs[3].err # None
    /\ Len(lsPages) = 2
    /\ lsPages[1] # << >>
    /\ lsPages[2] # << >>
    /\ lsAcc # None
    /\ lsRet.items = None


\* invocation i found level l absent, which it was, and another invocation
\* created it before i's create call
LostRace(i, l) ==
    /\ was[i][l] = "absent"
    /\ seen[i][l] = "absent"
    /\ CreateOpOf(l) \in OpsCalled(i)
    /\ l \notin made[i]

\* the levels below l
Deeper(l) ==
    CASE l = "bucket" -> {"namespace", "table"}
      [] l = "namespace" -> {"table"}
      [] l = "table" -> {}

\* C23: when a level that the check of a Create rightly reported absent is
\* created by another invocation before this one's create call, the create
\* call fails with ConflictException and is the invocation's last call: Create
\* returns nil and an error of kind Conflict under the create operation; the
\* check and the create call were made once each, and no call was made for a
\* deeper level.
C23_RaceSurfacesConflict ==
    \A i \in Invocations, l \in Levels :
        LostRace(i, l) =>
            /\ \E j \in Invocations \ {i} : l \in made[j]
            /\ Last(calls[i]).op = CreateOpOf(l)
            /\ Last(calls[i]).err = Some("ConflictException")
            /\ Returned(i)
            /\ ret[i].result = None
            /\ ret[i].err # None
            /\ ret[i].err[1].Type = "ErrorTypeConflict"
            /\ ret[i].err[1].Operation = CreateOpOf(l)
            /\ TimesCalled(i, CheckOpOf(l)) = 1
            /\ TimesCalled(i, CreateOpOf(l)) = 1
            /\ \A d \in Deeper(l) :
                  CheckOpOf(d) \notin OpsCalled(i) /\ CreateOpOf(d) \notin OpsCalled(i)

\* two invocations found the namespace absent; one created it, the other's
\* CreateNamespace met a Conflict
C23_Witness ==
    \E i, j \in Invocations :
        /\ i # j
        /\ LostRace(i, "namespace")
        /\ "namespace" \in made[j]
        /\ Returned(i)
        /\ Succeeded(j)


\* C24: the bucket check reports a bucket of exactly the requested name as
\* existing, with its ARN, on whichever page of the listing the remote returns
\* it, and Create calls CreateTableBucket only for a bucket that does not exist.
C24_WholeListing ==
    \A i \in Invocations :
        BucketChecked(i) =>
            /\ was[i]["bucket"] = "exists" =>
                  /\ seen[i]["bucket"] = "exists"
                  /\ bucketARN[i] = ArnOf(args.tableBucket)
            /\ "CreateTableBucket" \in OpsCalled(i) => was[i]["bucket"] = "absent"


\* the operations whose input has a TableBucketARN
ScopedOps == {"GetNamespace", "CreateNamespace", "GetTable", "CreateTable"}

\* the ARNs the remote has for the table buckets of that name
RemoteArns(name) ==
    {awsToString(rBuckets[k].Arn) : k \in {j \in DOMAIN rBuckets :
                                             awsToString(rBuckets[j].Name) = name}}

\* C25: every GetNamespace, CreateNamespace, GetTable and CreateTable call of a
\* Create carries the ARN that step 1 of the same invocation obtained, which is
\* the one the remote has for the bucket, listed or just created, and is not
\* empty; the calls of an invocation carry the same ARN, the bucket calls none,
\* and a returned result has that ARN as its TableBucketARN.
C25_RefThreading ==
    \A i \in Invocations :
        /\ \A k \in DOMAIN calls[i] :
              IF calls[i][k].op \in ScopedOps
              THEN /\ calls[i][k].arn = Some(bucketARN[i])
                   /\ bucketARN[i] # EmptyString
                   /\ bucketARN[i] \in RemoteArns(args.tableBucket)
                   /\ seen[i]["bucket"] = "exists" \/ "bucket" \in made[i]
                   /\ result[i].TableBucketARN = bucketARN[i]
              ELSE calls[i][k].arn = None
        /\ Succeeded(i) =>
              /\ ret[i].result[1].TableBucketARN = bucketARN[i]
              /\ \A k \in DOMAIN calls[i] :
                    calls[i][k].op \in ScopedOps =>
                        calls[i][k].arn = Some(ret[i].result[1].TableBucketARN)

\* both ways of step 1 in one run: the first Create made the bucket and all
\* below it, the second found the bucket listed, and each made its four calls
\* with the ARN
C25_Witness ==
    /\ 2 \in Invocations
    /\ Succeeded(1)
    /\ Succeeded(2)
    /\ "bucket" \in made[1]
    /\ seen[2]["bucket"] = "exists"
    /\ Cardinality({k \in DOMAIN calls[1] : calls[1][k].op \in ScopedOps}) = 4
    /\ calls[2][2].arn = Some(ret[1].result[1].TableBucketARN)


\* the navigate* calls so far that selected a bucket
BucketSelects ==
    {k \in DOMAIN nvActs :
        nvActs[k].level = LevelTableBucket /\ nvActs[k].action = ActionSelect}

\* a pass of the loop that makes a ListNamespacesAll / ListTablesAll call: the
\* call is given the selected bucket's ARN, which is not empty
ScopedFetchStep ==
    (Len(nvFetches') = Len(nvFetches) + 1 /\ Last(nvFetches').kind # "TableBuckets")
    => /\ Last(nvFetches').arn = state.SelectedBucketARN
       /\ Last(nvFetches').arn # EmptyString

\* the selected bucket's ARN changes only when a bucket is selected, to the
\* ARN listed for it
RefChangeStep ==
    (nvPc \notin {"new", "lookup"} /\ state'.SelectedBucketARN # state.SelectedBucketARN)
    => /\ Len(nvActs') = Len(nvActs) + 1
       /\ state.Level = LevelTableBucket
       /\ Last(nvActs').action = ActionSelect
       /\ state'.SelectedBucketARN = ArnOf(Last(nvActs').selected)
       /\ state'.SelectedBucket = Last(nvActs').selected

\* C26: every ListNamespaces and ListTables call of a session is given a
\* non-empty table bucket ARN: the ARN listed for the bucket selected last at
\* the table bucket level, or the ARN the session was started with when no
\* bucket has been selected; from every start level.
C26_RefSupplied ==
    /\ [][ScopedFetchStep /\ RefChangeStep]_vars
    /\ [](/\ \A k \in DOMAIN nvFetches :
                nvFetches[k].kind # "TableBuckets" => nvFetches[k].arn # EmptyString
          /\ BucketSelects # {} =>
                LET k == CHOOSE v \in BucketSelects : \A w \in BucketSelects : w <= v
                IN /\ state.SelectedBucketARN = ArnOf(nvActs[k].selected)
                   /\ state.SelectedBucket = nvActs[k].selected
          /\ (nvPc \notin {"new", "lookup"} /\ state.Level # LevelTableBucket) =>
                state.SelectedBucketARN # EmptyString
          /\ (nvPc = "listing" /\ lsKind # "TableBuckets") =>
                /\ lsArn = state.SelectedBucketARN
                /\ \A k \in DOMAIN lsReqs :
                      /\ lsReqs[k].input.TableBucketARN = Some(state.SelectedBucketARN)
                      /\ lsReqs[k].input.TableBucketARN # Some(EmptyString))

\* a session started at the table level with bucket and namespace given went
\* up to the top, a second bucket was selected, and its namespaces and tables
\* were listed
C26_Witness ==
    /\ Len(nvFetches) = 5
    /\ nvFetches[1].kind = "Tables"
    /\ nvFetches[1].arn = ArnOf(NavBucketName(1))
    /\ nvFetches[5].kind = "Tables"
    /\ nvFetches[5].arn = ArnOf(NavBucketName(2))
    /\ nvFetches[5].ok


\* the number of pages in which the remote serves n items, pageSize at a time
NumPages(n, pageSize) == IF n = 0 THEN 1 ELSE (n + pageSize - 1) \div pageSize

\* a token with which a listing goes on
GoesOn(token) == token # None /\ token[1] # EmptyString

\* C27: the first listing call of an aggregation has no ContinuationToken;
\* every later call has the token the response before it returned, which was
\* present and not empty, and the same TableBucketARN, Namespace and Prefix as
\* the first; so no call follows a failure or a response without a token or
\* with an empty one, and an aggregation that returned its items made as many
\* calls as the listing has pages, one for an empty listing.
C27_CursorProtocol ==
    /\ \A k \in DOMAIN lsReqs :
          /\ lsReqs[k].input.Prefix = PrefixInput(lsPrefix)
          /\ lsReqs[k].input.TableBucketARN = lsReqs[1].input.TableBucketARN
          /\ lsReqs[k].input.Namespace = lsReqs[1].input.Namespace
          /\ IF k = 1
             THEN lsReqs[k].input.ContinuationToken = None
             ELSE /\ lsReqs[k - 1].err = None
                  /\ GoesOn(lsReqs[k - 1].token)
                  /\ lsReqs[k].input.ContinuationToken = lsReqs[k - 1].token
    /\ lsPc = "loop" => lsReqs = << >> \/ (Last(lsReqs).err = None /\ GoesOn(Last(lsReqs).token))
    /\ (lsPc = "done" /\ lsReqs # << >>) =>
          Last(lsReqs).err # None \/ ~GoesOn(Last(lsReqs).token)
    /\ (lsPc = "done" /\ lsRet.err = None /\ lsReqs # << >>) =>
          Len(lsReqs) = NumPages(Len(lsAll), rPageSize)

\* a listing of tables drained in three calls, the last of which was answered
\* with an empty token
C27_Witness ==
    /\ lsPc = "done"
    /\ lsKind = "Tables"
    /\ lsRet.err = None
    /\ Len(lsReqs) = 3
    /\ lsReqs[1].input.TableBucketARN = Some(ListedBucketARN)
    /\ lsReqs[3].input.Namespace = Some(ListedNamespace)
    /\ lsReqs[3].token = Some(EmptyString)
    /\ lsReqs[3].input.ContinuationToken # None


\* the remote's latest answer ends the listing: a failure, no token, or an
\* empty one
Ended ==
    /\ lsLast # None
    /\ lsLast[1].err # None \/ ~GoesOn(lsLast[1].token)

\* a pass of the loop returns exactly when the remote's answer ends the
\* listing, and goes round again with the answer's token otherwise, whatever
\* was collected and however many passes were made
DrainStep ==
    (lsPc = "loop" /\ lsLast' # lsLast) =>
        IF lsLast'[1].err # None \/ ~GoesOn(lsLast'[1].token)
        THEN lsPc' = "done"
        ELSE lsPc' = "loop" /\ lsToken' = lsLast'[1].token

\* the aggregation returns after every answer of the remote
AlwaysReturns == <>(lsPc = "done")

\* C28: an aggregation has returned exactly when the remote's latest answer
\* was a failure or had no token or an empty one; as long as the answers have
\* a token the loop goes round again, so the aggregation returns if and only
\* if the remote ends the listing at some call.
C28_ReturnsIffRemoteEnds ==
    /\ [](lsPc = "done" <=> Ended)
    /\ [][DrainStep]_vars
    /\ (<>Ended) => <>(lsPc = "done")
    /\ (<>(lsPc = "done")) => <>Ended
    /\ ([]~Ended) => [](lsPc # "done")

\* the loop is in another pass: the remote had handed out all its items and
\* then answered with an empty page and a token
C28_Witness ==
    /\ lsPc = "loop"
    /\ lsLast # None
    /\ lsLast[1].items = << >>
    /\ GoesOn(lsLast[1].token)
    /\ lsToken = lsLast[1].token
    /\ Len(Elems(lsAcc)) = MaxDrainItems


\* the pass made a navigate* call that returned action at level
ActStep(level, actions) ==
    /\ Len(nvActs') = Len(nvActs) + 1
    /\ state.Level = level
    /\ Last(nvActs').action \in actions

\* the cache of the level of the pass is as it was, the list the call had
OwnCacheKept ==
    LET kind == KindAt(state.Level)
    IN /\ CacheOf(state', kind) = CacheOf(state, kind)
       /\ Names(CacheOf(state', kind)) = Last(nvActs').items

\* the ARNs the bucket cache lists for the bucket of that name
ListedArns(st, name) ==
    {Elems(st.TableBuckets)[k].ARN :
        k \in {j \in DOMAIN Elems(st.TableBuckets) : Elems(st.TableBuckets)[j].Name = name}}

SelectBucketStep ==
    ActStep(LevelTableBucket, {ActionSelect}) =>
        /\ state'.SelectedBucket = Last(nvActs').selected
        /\ state'.SelectedBucketARN \in ListedArns(state', Last(nvActs').selected)
        /\ state'.Namespaces = None
        /\ state'.Tables = None
        /\ OwnCacheKept
        /\ state'.TableBuckets # None

SelectNamespaceStep ==
    ActStep(LevelNamespace, {ActionSelect}) =>
        /\ state'.SelectedNamespace = Last(nvActs').selected
        /\ state'.Tables = None
        /\ OwnCacheKept
        /\ state'.Namespaces # None
        /\ state'.TableBuckets = state.TableBuckets
        /\ state'.SelectedBucket = state.SelectedBucket
        /\ state'.SelectedBucketARN = state.SelectedBucketARN

BackOrExitStep ==
    \A level \in {LevelTableBucket, LevelNamespace, LevelTable} :
        ActStep(level, {ActionBack, ActionExit}) =>
            /\ OwnCacheKept
            /\ \A kind \in ListingKinds \ {KindAt(level)} :
                  CacheOf(state', kind) = CacheOf(state, kind)
            /\ state'.SelectedBucket = state.SelectedBucket
            /\ state'.SelectedBucketARN = state.SelectedBucketARN
            /\ state'.SelectedNamespace = state.SelectedNamespace

\* C29: a Select at the table bucket level stores the selected name and the ARN
\* the bucket list has for it, sets the namespace and the table cache to nil
\* and keeps the bucket list; a Select at the namespace level stores the
\* namespace name, sets the table cache to nil and keeps the bucket list, the
\* namespace list and the selected bucket; Back and Exit, chosen or taken for
\* an empty list, change no cache and no selection.
C29_SelectEffect ==
    [][SelectBucketStep /\ SelectNamespaceStep /\ BackOrExitStep]_vars

\* a second namespace was selected with the table list of the first in the
\* cache: the table cache is nil again, the other two lists are kept
C29_Witness ==
    /\ Len(nvActs) = 4
    /\ nvActs[2].level = LevelNamespace
    /\ nvActs[2].action = ActionSelect
    /\ nvActs[3].action = ActionBack
    /\ nvActs[3].items # << >>
    /\ nvActs[4].action = ActionSelect
    /\ nvActs[4].selected # nvActs[2].selected
    /\ state.Tables = None
    /\ state.Namespaces # None
    /\ state.TableBuckets # None


\* C30: every SelectWithFilter call at the table bucket level is made with
\* showBack false, and every one at the namespace and table levels with
\* showBack true.
C30_BackEntryPerLevel ==
    \A k \in DOMAIN nvActs :
        nvActs[k].asked =>
            (nvActs[k].showBack <=> nvActs[k].level \in {LevelNamespace, LevelTable})

\* the selector was asked at all three levels, and at the top twice
C30_Witness ==
    /\ \A level \in {LevelTableBucket, LevelNamespace, LevelTable} :
          \E k \in DOMAIN nvActs : nvActs[k].asked /\ nvActs[k].level = level
    /\ Cardinality({k \in DOMAIN nvActs :
                       nvActs[k].asked /\ nvActs[k].level = LevelTableBucket}) = 2



\* the label each level's prompt is to carry
LabelAt(level) ==
    CASE level = LevelTableBucket -> "Select Table Bucket"
      [] level = LevelNamespace -> "Select Namespace"
      [] level = LevelTable -> "Select Table"

\* a pass that asks the selector: the label is the level's, and the items are
\* the names the remote listed, all pages, to the latest aggregation of the
\* level's kind, which was made for the current parent context; the names are
\* those of one listing when the remote's did not change under the aggregation
PromptStep ==
    (Len(nvActs') = Len(nvActs) + 1 /\ Last(nvActs').asked) =>
        LET kind == KindAt(state.Level)
            got == SelectSeq(nvFetches', LAMBDA f : f.kind = kind /\ f.ok)
        IN /\ Last(nvActs').level = state.Level
           /\ Last(nvActs').label = LabelAt(state.Level)
           /\ got # << >>
           /\ Last(got).changes = 0 => Last(nvActs').items = Last(got).listed[1]
           /\ <<Last(got).arn, Last(got).ns>> = ContextOf(state, kind)

\* the first aggregation of a session is the start level's, for the context
\* the session was started with
FirstFetchStep ==
    (nvFetches = << >> /\ nvFetches' # << >>) =>
        /\ nvActs = << >>
        /\ nvFetches'[1].kind = KindAt(state.Level)
        /\ <<nvFetches'[1].arn, nvFetches'[1].ns>> = ContextOf(state, KindAt(state.Level))

\* the session was started below the table bucket level
StartedBelow == nvFetches # << >> /\ nvFetches[1].kind # "TableBuckets"

\* the navigate* calls before which the buckets were listed: those at the table
\* bucket level, and one past the last when a listing call for buckets has been
\* made in a navigate* call that has not returned, or that returned an error
BucketListings ==
    {k \in DOMAIN nvActs : nvActs[k].level = LevelTableBucket}
    \cup (IF \/ nvPc = "listing" /\ lsKind = "TableBuckets" /\ lsReqs # << >>
             \/ /\ nvFetches # << >>
                /\ Last(nvFetches).kind = "TableBuckets"
                /\ nvPc = "select" \/ ~Last(nvFetches).ok
          THEN {Len(nvActs) + 1} ELSE {})

\* C31 as stated: a prompt carries its level's label and the names of the
\* level's complete listing for the current parent; a session started below
\* the top fetches the start level's listing for its context first and lists
\* no buckets before its first prompt.
C31_AsStated ==
    /\ [][PromptStep /\ FirstFetchStep]_vars
    /\ [](StartedBelow =>
             \A k \in BucketListings : \E j \in 1..(k - 1) : nvActs[j].asked)

\* C31, amended: as above, the items being the names of one complete listing
\* when the remote's listing did not change while it was aggregated; but a
\* session started below the top lists the buckets before its first prompt
\* exactly when every listing it fetched until then was empty, each empty
\* listing sending it one level up.
C31_PromptShowsListing ==
    /\ [][PromptStep /\ FirstFetchStep]_vars
    /\ [](StartedBelow =>
             \A k \in BucketListings :
                 \/ \E j \in 1..(k - 1) : nvActs[j].asked
                 \/ \A j \in 1..(k - 1) :
                       /\ nvActs[j].items = << >>
                       /\ nvActs[j].fetched
                       /\ nvActs[j].action = ActionBack)

\* a session started at the table level was asked there, went up by Back to
\* the namespace list of two pages and on to the bucket list, selected the
\* second bucket and was asked for its namespaces
C31_Witness ==
    /\ Len(nvActs) = 4
    /\ rPageSize = 1
    /\ nvActs[1].level = LevelTable
    /\ nvActs[1].asked
    /\ nvActs[2].level = LevelNamespace
    /\ Len(nvActs[2].items) = 2
    /\ nvActs[3].level = LevelTableBucket
    /\ nvActs[3].action = ActionSelect
    /\ nvActs[3].selected = NavBucketName(2)
    /\ nvActs[4].level = LevelNamespace
    /\ nvActs[4].asked
    /\ nvActs[4].fetched
    /\ nvActs[4].label = "Select Namespace"



\* the log line of a level: "created" or "already exists"
LogLine(kind, name, created) ==
    <<kind, name, IF created THEN "created" ELSE "already exists">>

\* the three log lines that go with the flags of a result
LogOf(res) ==
    <<LogLine("Table Bucket", args.tableBucket, res.TableBucketCreated),
      LogLine("Namespace", args.namespace, res.NamespaceCreated),
      LogLine("Table", args.table, res.TableCreated)>>

\* the log of an invocation is only appended to, one line at a time
LogAppendStep ==
    \A i \in Invocations :
        \/ result'[i].Messages = result[i].Messages
        \/ /\ Len(result'[i].Messages) = Len(result[i].Messages) + 1
           /\ SubSeq(result'[i].Messages, 1, Len(result[i].Messages)) = result[i].Messages

\* C32: the result of a successful Create has exactly three messages, for the
\* bucket, the namespace and the table in this order; each is the "created"
\* message if the level's Created flag is true and the "already exists" message
\* if it is false.
C32_ResultLog ==
    /\ [](\A i \in Invocations :
             Succeeded(i) =>
                 /\ Len(ret[i].result[1].Messages) = 3
                 /\ ret[i].result[1].Messages = LogOf(ret[i].result[1]))
    /\ [][LogAppendStep]_vars

\* a Create that found the bucket and made the namespace and the table
C32_Witness ==
    \E i \in Invocations :
        /\ Succeeded(i)
        /\ ~ret[i].result[1].TableBucketCreated
        /\ ret[i].result[1].NamespaceCreated
        /\ ret[i].result[1].TableCreated
        /\ ret[i].result[1].Messages[1][3] = "already exists"
        /\ ret[i].result[1].Messages[2][3] = "created"



\* how many of the three Created flags of a result are true
FlagsTrue(res) ==
    Cardinality({l \in Levels : CreatedFlag(res, l)})

\* C33: the summary printed for a result counts a level as created when its
\* Created flag is true and as already existing when it is false, whatever the
\* ARNs in the result: the two counts add up to 3.
C33_CountsByFlags ==
    prPc = "printed" =>
        /\ prOut[1].created = FlagsTrue(prResult)
        /\ prOut[1].existed = 3 - FlagsTrue(prResult)
        /\ prOut[1].created + prOut[1].existed = 3

\* the counts are those of the flags whenever a level whose flag is false has
\* its ARN in the result
CountsByFlagsGivenRefs ==
    (/\ prPc = "printed"
     /\ prResult.TableBucketCreated \/ prResult.TableBucketARN # EmptyString
     /\ prResult.TableCreated \/ prResult.TableARN # EmptyString)
    => /\ prOut[1].created = FlagsTrue(prResult)
       /\ prOut[1].existed = 3 - FlagsTrue(prResult)



\* C34: the selector is asked only with a list that is not empty, at every
\* level, also when it then fails; the error a selector gives for an empty list
\* is never what Navigate returns.
C34_NeverPromptsEmpty ==
    /\ \A k \in DOMAIN nvActs : nvActs[k].asked <=> nvActs[k].items # << >>
    /\ (nvErr # None /\ nvErr[1].Operation = "") =>
          /\ nvErr[1].OriginalErr # "no items to select"
          /\ Len(Elems(CacheOf(state, KindAt(state.Level)))) > 0

\* a session took two listings for empty without asking and was then asked at
\* the top, where the selector failed
C34_Witness ==
    /\ Len(nvActs) = 2
    /\ ~nvActs[1].asked
    /\ ~nvActs[2].asked
    /\ nvActs[1].level = LevelTable
    /\ state.Level = LevelTableBucket
    /\ nvErr = Some(PlainError("selection failed"))



RECURSIVE LastAskBefore(_)
\* the latest navigate* call before the k-th that asked the selector, 0 if none
LastAskBefore(k) ==
    IF k <= 1 THEN 0
    ELSE IF nvActs[k - 1].asked THEN k - 1
    ELSE LastAskBefore(k - 1)

\* the navigate* calls after the call last and before the k-th that changed the
\* level
MovesBetween(last, k) ==
    {i \in (last + 1)..(k - 1) : nvActs[i].action = ActionBack}

\* the aggregations made after the call last up to and in the k-th call; for k
\* past the last call, those made since, a failed one included
AggregationsBetween(last, k) ==
    IF k <= Len(nvActs)
    THEN Cardinality({i \in (last + 1)..k : nvActs[i].fetched})
    ELSE Len(nvFetches) - Cardinality({i \in 1..last : nvActs[i].fetched})

\* the level changes before the k-th call since the selector was last asked:
\* none of them asked
AutoMoves(k) == MovesBetween(LastAskBefore(k), k)

\* the aggregations up to the k-th call since the selector was last asked
AggregationsUpTo(k) == AggregationsBetween(LastAskBefore(k), k)

\* a pass of the loop asks the selector, or ends the session, or moves the
\* session to the level above
ProgressStep ==
    (nvPc \in {"navigating", "select"} /\ nvPc' = "navigating") =>
        /\ Len(nvActs') = Len(nvActs) + 1
        /\ \/ Last(nvActs').asked
           \/ /\ LevelRank(state'.Level) < LevelRank(state.Level)
              /\ Last(nvActs').action = ActionBack

\* C35: between two calls of the selector, and between the start of a session
\* and its first call of the selector or its end, at most two level changes
\* are made unasked and at most three listings are aggregated; a pass of
\* Navigate's loop that neither asks the selector nor ends the session moves
\* the session one level up, so the loop cannot go round for ever unasked.
C35_Progress ==
    /\ [](\A k \in 1..(Len(nvActs) + 1) :
             LET last == LastAskBefore(k)
                 moves == MovesBetween(last, k)
             IN /\ Cardinality(moves) <= 2
                /\ AggregationsBetween(last, k) <= 3
                /\ \A i \in moves :
                      /\ nvActs[i].items = << >>
                      /\ nvActs[i].level # LevelTableBucket)
    /\ [][ProgressStep]_vars

\* a session started at the table level met an empty table list and an empty
\* namespace list and was asked at the top after three aggregations
C35_Witness ==
    /\ Len(nvActs) = 3
    /\ Len(nvFetches) = 3
    /\ ~nvActs[1].asked
    /\ ~nvActs[2].asked
    /\ nvActs[3].asked
    /\ nvActs[3].level = LevelTableBucket
    /\ nvActs[3].action = ActionSelect
    /\ AggregationsUpTo(3) = 3
    /\ Cardinality(AutoMoves(3)) = 2



\* the aggregations of the bucket listing made in the session
BucketFetches == {k \in DOMAIN nvFetches : nvFetches[k].kind = "TableBuckets"}

\* once the bucket cache holds a list it is never replaced or dropped, and no
\* pass aggregates the bucket listing again
BucketCacheStep ==
    state.TableBuckets # None =>
        /\ state'.TableBuckets = state.TableBuckets
        /\ \/ nvFetches' = nvFetches
           \/ /\ Len(nvFetches') = Len(nvFetches) + 1
              /\ Last(nvFetches').kind # "TableBuckets"

\* C36: a session aggregates the bucket listing at most once, from whatever
\* level it started and whatever was selected; the bucket list, once cached,
\* stays as it is to the end of the session, so each later prompt at the top
\* shows the same items.
C36_BucketsListedOnce ==
    /\ [](/\ Cardinality(BucketFetches) <= 1
          /\ \A j, k \in DOMAIN nvActs :
                (nvActs[j].level = LevelTableBucket /\ nvActs[k].level = LevelTableBucket)
                => nvActs[j].items = nvActs[k].items
          /\ \A k \in DOMAIN nvActs :
                (nvActs[k].level = LevelTableBucket /\ nvActs[k].asked)
                => Names(state.TableBuckets) = nvActs[k].items)
    /\ [][BucketCacheStep]_vars

\* a session started at the namespace level went up, selected a bucket, went
\* up again and was asked at the top a second time: the namespaces were
\* aggregated twice, the buckets once
C36_Witness ==
    /\ Len(nvActs) = 4
    /\ nvActs[1].level = LevelNamespace
    /\ nvActs[2].level = LevelTableBucket
    /\ nvActs[2].fetched
    /\ nvActs[4].level = LevelTableBucket
    /\ nvActs[4].asked
    /\ Cardinality(BucketFetches) = 1
    /\ Len(nvFetches) = 3



\* every invocation has returned
AllReturned == \A i \in Invocations : Returned(i)

\* the invocations whose create call for the level went through
MakersOf(l) == {i \in Invocations : l \in made[i]}

\* the invocations that returned a result with the level's Created flag set
ReportersOf(l) ==
    {i \in Invocations : Succeeded(i) /\ CreatedFlag(ret[i].result[1], l)}

\* C37: when the invocations of Create for the same names, interleaved at
\* their remote calls over a remote that fails only with Conflict for a
\* duplicate creation, have all returned, each returned a result or an error
\* of kind Conflict, at least one returned a result, the bucket, the namespace
\* and the table exist, no level was created by more than one invocation, and
\* no level is reported created by more than one; no invocation makes more
\* than six remote calls.
C37_ConcurrentCreate ==
    /\ \A i \in Invocations : Len(calls[i]) <= 6
    /\ \A l \in Levels : Cardinality(MakersOf(l)) <= 1
    /\ \A l \in Levels : ReportersOf(l) \subseteq MakersOf(l)
    /\ AllReturned =>
          /\ \A i \in Invocations :
                Succeeded(i) \/ ret[i].err[1].Type = "ErrorTypeConflict"
          /\ \E i \in Invocations : Succeeded(i)
          /\ ExistingLevels = Levels



\* both lookups of the name were made against a remote that did not change and
\* that failed no call
BothLookedUp ==
    /\ lkCheck # None
    /\ lkGet # None
    /\ lkName # EmptyString
    /\ lkChanged = 0
    /\ lkCheck[1].err = None
    /\ lkGet[1].err # None => lkGet[1].err[1].Operation = "GetTableBucketARN"

\* C38: for the same remote and the same name, checkTableBucketExists reports
\* the bucket as existing with an ARN exactly when GetTableBucketARN returns
\* that ARN, and as not existing exactly when GetTableBucketARN returns a
\* NotFound error.
C38_LookupsAgree ==
    BothLookedUp =>
        /\ lkCheck[1].exists <=> lkGet[1].err = None
        /\ lkCheck[1].exists => lkCheck[1].arn = lkGet[1].arn
        /\ ~lkCheck[1].exists <=>
              (lkGet[1].err # None /\ lkGet[1].err[1].Type = "ErrorTypeNotFound")

\* both lookups find the bucket that the remote lists after another,
\* whenever the listing comes in one page; and both agree with the remote on
\* whether the bucket exists when it does
LookupsAgreeOnFirstPage ==
    (/\ BothLookedUp
     /\ Len(rBuckets) <= rPageSize)
    => /\ lkCheck[1].exists <=> lkGet[1].err = None
       /\ lkCheck[1].exists <=> BucketExists(rBuckets, lkName)
       /\ lkCheck[1].exists => lkCheck[1].arn = lkGet[1].arn

\* GetTableBucketARN agrees with a remote that did not change under it and
\* failed no call
GetAgreesWithRemote ==
    (/\ lkGet # None
     /\ lkName # EmptyString
     /\ lkChanged = 0
     /\ lkGet[1].err # None => lkGet[1].err[1].Operation = "GetTableBucketARN")
    => /\ lkGet[1].err = None <=> BucketExists(rBuckets, lkName)
       /\ lkGet[1].err = None => lkGet[1].arn = ArnOf(lkName)
       /\ lkGet[1].err # None => lkGet[1].err[1].Type = "ErrorTypeNotFound"

\* under a remote that deletes a bucket between two listing calls of the
\* lookup, GetTableBucketARN has returned the ARN of a bucket that is gone
LookupUnderChange ==
    /\ lkGet # None
    /\ lkChanged > 0
    /\ lkGet[1].err = None
    /\ ~BucketExists(rBuckets, lkName)



\* the navigate* call under way is the first at its level, which the session
\* came up into by a Back chosen or taken for an empty list
FirstVisitByBack ==
    /\ nvActs # << >>
    /\ Last(nvActs).action = ActionBack
    /\ \A k \in DOMAIN nvActs : nvActs[k].level # state.Level

\* the aggregations logged of the listing of the level the session is at
FetchesHere == {k \in DOMAIN nvFetches : nvFetches[k].kind = KindAt(state.Level)}

\* such a call begins with the aggregation of the level's listing, for the
\* bucket and namespace selected
FetchOnEntry ==
    (FirstVisitByBack /\ nvPc = "navigating") =>
        /\ nvPc' = "listing"
        /\ lsPc' = "loop"
        /\ lsReqs' = << >>
        /\ lsKind' = KindAt(state.Level)
        /\ <<lsArn', lsNs'>> = ContextOf(state, KindAt(state.Level))
        /\ UNCHANGED <<state, nvActs, nvFetches>>

\* the aggregation is the only one of that listing, and what it returned is
\* the list the call has
FetchedOnce ==
    FirstVisitByBack =>
        /\ nvPc \in {"navigating", "listing"} => FetchesHere = {}
        /\ nvPc = "select" =>
              /\ FetchesHere = {Len(nvFetches)}
              /\ Last(nvFetches).ok
              /\ <<Last(nvFetches).arn, Last(nvFetches).ns>>
                    = ContextOf(state, KindAt(state.Level))
              /\ Last(nvFetches).changes = 0 =>
                    Names(CacheOf(state, KindAt(state.Level))) = Last(nvFetches).listed[1]

\* the call asked the selector with the names just listed; the selector
\* answered or failed
PromptedWithListing ==
    /\ Names(CacheOf(state, KindAt(state.Level))) # << >>
    /\ nvFetches' = nvFetches
    /\ \/ /\ Len(nvActs') = Len(nvActs) + 1
          /\ Last(nvActs').asked
          /\ Last(nvActs').fetched
          /\ Last(nvActs').items = Names(CacheOf(state, KindAt(state.Level)))
       \/ /\ nvActs' = nvActs
          /\ nvPc' = "done"
          /\ nvErr' = SelectionFailed

\* the call took the listing for empty and asked nothing: Back below the top,
\* Exit at the top
EmptyOnEntry ==
    /\ Names(CacheOf(state, KindAt(state.Level))) = << >>
    /\ nvFetches' = nvFetches
    /\ Len(nvActs') = Len(nvActs) + 1
    /\ ~Last(nvActs').asked
    /\ Last(nvActs').action =
          IF state.Level = LevelTableBucket THEN ActionExit ELSE ActionBack

\* the selected bucket, its ARN and the selected namespace change only by a
\* Select at the level of the bucket, or of the namespace
SelectionKeptStep ==
    /\ (state'.SelectedBucket # state.SelectedBucket
        \/ state'.SelectedBucketARN # state.SelectedBucketARN)
       => (nvPc \in {"new", "lookup"} \/ ActStep(LevelTableBucket, {ActionSelect}))
    /\ state'.SelectedNamespace # state.SelectedNamespace
       => (nvPc \in {"new", "lookup"} \/ ActStep(LevelNamespace, {ActionSelect}))

\* C39 as stated: a Back, or an empty-list return, into an upper level that the
\* session has not been at makes one aggregation of that level's listing and
\* then asks the selector with it; the bucket, ARN and namespace the session
\* was started with stay selected until a Select at the level above.
C39_AsStated ==
    /\ []FetchedOnce
    /\ [][/\ FetchOnEntry
          /\ (FirstVisitByBack /\ nvPc = "select") => PromptedWithListing
          /\ SelectionKeptStep]_vars

\* C39, amended: as above, but the selector is asked only when the listing is
\* not empty; an empty namespace listing returns Back to the table bucket
\* level, an empty bucket listing ends the session, in both cases unasked; an
\* aggregation that fails ends the session with its error.
C39_BackIntoUnvisited ==
    /\ []FetchedOnce
    /\ [][/\ FetchOnEntry
          /\ (FirstVisitByBack /\ nvPc = "select") =>
                (PromptedWithListing \/ EmptyOnEntry)
          /\ (FirstVisitByBack /\ FetchFailed) =>
                (nvActs' = nvActs /\ nvPc' = "done" /\ nvErr' = lsRet.err)
          /\ SelectionKeptStep]_vars

\* a session started at the table level went Back into the namespace level and
\* Back again into the table bucket level, each listed then for the first
\* time, and was asked at both; what it was started with is still selected
C39_Witness ==
    /\ Len(nvActs) = 3
    /\ Len(nvFetches) = 3
    /\ nvActs[1].level = LevelTable
    /\ nvActs[1].asked
    /\ nvActs[2].level = LevelNamespace
    /\ nvActs[2].asked
    /\ nvActs[2].fetched
    /\ nvActs[2].action = ActionBack
    /\ nvActs[3].level = LevelTableBucket
    /\ nvActs[3].asked
    /\ nvActs[3].fetched
    /\ nvFetches[2].arn = state.SelectedBucketARN
    /\ state.SelectedBucket = NavBucketName(1)
    /\ state.SelectedNamespace = SeededNamespace

====
